---- MODULE Spec2Model ----
(***************************************************************************)
(* Deckworthy: the outbound HTTP utilities (utils/http.ts: fetchJson,      *)
(* sleep, RateLimiter) and the three external-data services built on them. *)
(* Time is the integer value of Date.now(), scaled down.                   *)
(***************************************************************************)
EXTENDS Integers, Sequences, FiniteSets, TLC

\* ---------------------------------------------------------------- bounds
NumCallers == 3
MaxN == 2
MaxW == 2
MaxCallTime == 1
MaxTime == MaxCallTime + NumCallers * MaxW
MaxRetries == 3
MaxDelay == 2
MaxTimeout == 2
MaxBodyTime == 2
NumIds == 2
Max429 == 2
NumGames == 2
MaxBatch == 2
MaxHistory == 3
MaxBundles == 1
MaxBundleRows == 2
MaxStoreTime == 1
MaxCalls == 3
MaxTicks == 4
MaxJobRuns == 2
SmallCatalogue == 3
MaxCatalogue == 101

Callers == 1..NumCallers

VARIABLES
  maxRequests,      \* RateLimiter.maxRequests
  perMilliseconds,  \* RateLimiter.perMilliseconds
  requests,         \* RateLimiter.requests
  now,              \* Date.now()
  pc,               \* per caller: position in execute / waitForSlot
  wake,             \* per caller: due time of the pending sleep(waitTime)
  callTime,         \* per caller: Date.now() when execute was called
  rounds,           \* per caller: number of sleep-and-retry rounds so far
  admitLog,         \* history: every requests.push(now), as [who, at]
  opLog,            \* history: every fn() invocation, as [who, at]
  lastCheck         \* history: the latest trim-check-record step

limVars == <<maxRequests, perMilliseconds, requests, now, pc, wake, callTime,
             rounds, admitLog, opLog, lastCheck>>

VARIABLES
  fpc,        \* fetchJson: position ("idle", "loop", "backoff", "returned", "thrown")
  fopts,      \* fetchJson: the options [retries, retryDelay, timeout]
  attempt,    \* fetchJson: the loop variable
  lastError,  \* fetchJson: lastError (NoError for null, else its message)
  thrown,     \* fetchJson: the error thrown at the end, [attempts, message]
  fstart,     \* history: Date.now() when fetchJson was called
  wire,       \* history: time of every fetch() call put on the wire
  failLog,    \* history: message of the error raised by each failed attempt
  sleeps,     \* history: duration of every backoff sleep of this call
  slowest     \* history: the longest attempt of this call, in ms

fetchVars == <<fpc, fopts, attempt, lastError, thrown, fstart, wire, failLog,
               sleeps, slowest>>

VARIABLES
  svc,        \* which service's bulk sync runs ("steam", "protondb", "itad")
  spc,        \* bulk sync: position
  idx,        \* bulk sync: loop index i (1-based), or the batch number
  results,    \* bulk sync: the SyncResult being built [success, failed, skipped]
  found,      \* itad: idMap.size after the lookup phase
  cooldowns,  \* history: 60 s cool-downs taken by the current fetchAppDetails call
  n429,       \* history: number of 429 answers the remote end has given
  transient,  \* history: ids / batches whose request failed for good, transiently
  detail      \* history: how the latest single-id fetch ended [outcome, transient]

syncVars == <<svc, spc, idx, results, found, cooldowns, n429, transient, detail>>

VARIABLES
  games,                \* table games
  protondb_ratings,     \* table protondb_ratings
  current_prices,       \* table current_prices
  price_history,        \* table price_history
  humble_bundles,       \* table humble_bundles
  humble_bundle_games,  \* table humble_bundle_games
  sqlite_sequence,      \* the AUTOINCREMENT counters, per table
  calls,                \* history: number of repository calls made so far
  lastCall,             \* history: the latest repository call [op, ok]
  upserted,             \* history: per game id, its latest upsert since it was created
  priceLog,             \* history: per (game, store), the committed price updates
  cascaded              \* history: per (game, store), how many of them were deleted

storeVars == <<games, protondb_ratings, current_prices, price_history,
               humble_bundles, humble_bundle_games, sqlite_sequence,
               calls, lastCall, upserted, priceLog, cascaded>>

VARIABLES
  request,    \* GET /api/games: req.query of the latest request
  response    \* GET /api/games: the response sent for it

queryVars == <<request, response>>

VARIABLES
  data_sync_log,  \* table data_sync_log
  lastRun         \* history: how the latest bulk sync ended

auditVars == <<data_sync_log, lastRun>>

VARIABLES
  running,       \* per scheduled job, its runs in progress
  crashed,       \* an exception left a cron callback: the process is down
  ticks,         \* the ticks the schedules have fired
  errorLog,      \* the jobs a run of which logged its failure
  afterFailure   \* history: the jobs started after a failure was logged

jobVars == <<running, crashed, ticks, errorLog, afterFailure>>

dbVars == <<storeVars, queryVars, auditVars, jobVars>>

vars == <<limVars, fetchVars, syncVars, dbVars>>

\* what a fetchJson step and a bulk-sync step leave alone
limFixed == <<maxRequests, perMilliseconds, pc, wake, callTime,
              rounds, admitLog, opLog, lastCheck>>
syncFixed == <<svc, spc, idx, results, found, cooldowns, transient, detail>>

\* ------------------------------------------------------- RateLimiter
\* this.requests.filter(timestamp => now - timestamp < this.perMilliseconds)
MutTrimEager(reqs, t, w) == SelectSeq(reqs, LAMBDA ts : t - ts < w - 1)
MutTrimInclusive(reqs, t, w) == SelectSeq(reqs, LAMBDA ts : t - ts <= w)
Trim(reqs, t, w) == SelectSeq(reqs, LAMBDA ts : t - ts < w)

\* if (this.requests.length >= this.maxRequests) { oldestRequest !== undefined ...
MutMustWaitOffByOne(kept, n) == Len(kept) > n /\ Len(kept) > 0
MustWait(kept, n) == Len(kept) >= n /\ Len(kept) > 0

\* const waitTime = this.perMilliseconds - (now - oldestRequest)
WaitTime(kept, t, w) == w - (t - kept[1])

\* constructor(maxRequests, perMilliseconds): this.requests = []
LimiterInit ==
  /\ maxRequests \in 0..MaxN
  /\ perMilliseconds \in 1..MaxW
  /\ requests = <<>>
  /\ now = 0
  /\ pc = [c \in Callers |-> "idle"]
  /\ wake = [c \in Callers |-> 0]
  /\ callTime = [c \in Callers |-> 0]
  \* history variables
  /\ rounds = [c \in Callers |-> 0]
  /\ admitLog = <<>>
  /\ opLog = <<>>
  /\ lastCheck = [quietRun |-> 0, admitted |-> FALSE, aged |-> FALSE]

\* history: every admitted timestamp is at least a whole window old
Quiet == \A i \in DOMAIN admitLog : now - admitLog[i].at >= perMilliseconds

MutWaitForSlotRecordsBeforeWait(c) ==
  LET kept == Trim(requests, now, perMilliseconds)
      run  == IF Quiet THEN 1
              ELSE IF lastCheck.quietRun > MaxN THEN lastCheck.quietRun
              ELSE lastCheck.quietRun + 1
      aged == IF Quiet THEN admitLog # <<>> ELSE lastCheck.aged
  IN IF MustWait(kept, maxRequests)
     THEN /\ requests' = Append(kept, now)
          /\ wake' = [wake EXCEPT ![c] = now + WaitTime(kept, now, perMilliseconds)]
          /\ pc' = [pc EXCEPT ![c] = "sleeping"]
          /\ rounds' = [rounds EXCEPT ![c] = IF @ < NumCallers THEN @ + 1 ELSE @]
          /\ lastCheck' = [quietRun |-> run, admitted |-> FALSE, aged |-> aged]
          /\ admitLog' = Append(admitLog, [who |-> c, at |-> now])
     ELSE /\ requests' = Append(kept, now)
          /\ pc' = [pc EXCEPT ![c] = "admitted"]
          /\ admitLog' = Append(admitLog, [who |-> c, at |-> now])
          /\ lastCheck' = [quietRun |-> run, admitted |-> TRUE, aged |-> aged]
          /\ UNCHANGED <<wake, rounds>>

\* One synchronous run of waitForSlot by caller c, from `const now` up to the
\* first await or the return: no other callback runs in between.
WaitForSlot(c) ==
  LET kept == Trim(requests, now, perMilliseconds)
      run  == IF Quiet THEN 1
              ELSE IF lastCheck.quietRun > MaxN THEN lastCheck.quietRun
              ELSE lastCheck.quietRun + 1
      aged == IF Quiet THEN admitLog # <<>> ELSE lastCheck.aged
  IN IF MustWait(kept, maxRequests)
     THEN /\ requests' = kept
          /\ wake' = [wake EXCEPT ![c] = now + WaitTime(kept, now, perMilliseconds)]
          /\ pc' = [pc EXCEPT ![c] = "sleeping"]
          /\ rounds' = [rounds EXCEPT ![c] = IF @ < NumCallers THEN @ + 1 ELSE @]
          /\ lastCheck' = [quietRun |-> run, admitted |-> FALSE, aged |-> aged]
          /\ UNCHANGED admitLog
     ELSE /\ requests' = Append(kept, now)
          /\ pc' = [pc EXCEPT ![c] = "admitted"]
          /\ admitLog' = Append(admitLog, [who |-> c, at |-> now])
          /\ lastCheck' = [quietRun |-> run, admitted |-> TRUE, aged |-> aged]
          /\ UNCHANGED <<wake, rounds>>

\* A timer callback or a clock change is only observed once every continuation
\* of a resolved `await this.waitForSlot()` has run (microtasks run first).
MicrotasksDrained == \A c \in Callers : pc[c] # "admitted"

\* execute(fn) is called: `await this.waitForSlot()` runs its first pass
Call(c) ==
  /\ pc[c] = "idle"
  /\ \A d \in Callers : d < c => pc[d] # "idle"   \* callers are numbered in call order
  /\ now <= MaxCallTime
  /\ callTime' = [callTime EXCEPT ![c] = now]
  /\ WaitForSlot(c)
  /\ UNCHANGED <<maxRequests, perMilliseconds, now, opLog>>
  /\ UNCHANGED <<fetchVars, syncVars, dbVars>>

\* the sleep(waitTime) timer fires: `return this.waitForSlot()`
Wake(c) ==
  /\ pc[c] = "sleeping"
  /\ now >= wake[c]
  /\ MicrotasksDrained
  /\ WaitForSlot(c)
  /\ UNCHANGED <<maxRequests, perMilliseconds, now, callTime, opLog>>
  /\ UNCHANGED <<fetchVars, syncVars, dbVars>>

\* waitForSlot has resolved: `return fn()`
Invoke(c) ==
  /\ pc[c] = "admitted"
  /\ opLog' = Append(opLog, [who |-> c, at |-> now])
  /\ pc' = [pc EXCEPT ![c] = "done"]
  /\ UNCHANGED <<maxRequests, perMilliseconds, requests, now, wake, callTime,
                 rounds, admitLog, lastCheck>>
  /\ UNCHANGED <<fetchVars, syncVars, dbVars>>

\* Date.now() advances; a timer may fire late, never early
Tick ==
  /\ now < MaxTime
  /\ MicrotasksDrained
  /\ now' = now + 1
  /\ UNCHANGED <<maxRequests, perMilliseconds, requests, pc, wake, callTime,
                 rounds, admitLog, opLog, lastCheck>>
  /\ UNCHANGED <<fetchVars, syncVars, dbVars>>

\* Date.now() advances, timers firing on time (setTimeout due => callback runs)
TickOnTime ==
  /\ \A c \in Callers : pc[c] = "sleeping" => now < wake[c]
  /\ Tick

\* ---------------------------------------------------------- fetchJson
NoError == "<null>"
Placeholder == "Unknown error"

\* What the remote end and the transport do with one request:
\*   hdr   "none" (nothing ever arrives), "neterr" / "neterr-nomsg" (fetch
\*         rejects), or the status line of the response
\*   h     ms until the headers (or the rejection) arrive
\*   body  "json" or "garbage", and b, the ms the body takes after the headers
Statuses == {"200", "404", "429", "500"}
Answers(timeout) ==
  [hdr : {"none"}, h : {timeout}, body : {"json"}, b : {0}]
  \cup [hdr : {"neterr", "neterr-nomsg"} \cup (Statuses \ {"200"}),
        h : {0, timeout - 1}, body : {"json"}, b : {0}]
  \cup [hdr : {"200"}, h : {0, timeout - 1}, body : {"json", "garbage"},
        b : {0, MaxBodyTime}]

PromptAnswers(timeout) ==
  {a \in Answers(timeout) : a.hdr = "none" \/ (a.h = 0 /\ a.b = 0 /\ a.hdr # "neterr-nomsg")}

\* setTimeout(() => controller.abort(), timeout) ... clearTimeout(timeoutId):
\* the abort is armed only until fetch() resolves with the headers
Aborted(a, timeout) == a.hdr = "none" \/ a.h >= timeout

\* response.ok
Ok(a) == a.hdr = "200"

\* the message of the error the attempt raises, NoError when it returns data
AttemptError(a, timeout) ==
  IF Aborted(a, timeout) THEN "This operation was aborted"
  ELSE IF a.hdr = "neterr" THEN "Network error"
  ELSE IF a.hdr = "neterr-nomsg" THEN ""
  ELSE IF ~Ok(a) THEN "HTTP " \o a.hdr
  ELSE IF a.body = "garbage" THEN "Unexpected token in JSON"
  ELSE NoError

\* ms from the start of the attempt to its return or throw
AttemptTime(a, timeout) ==
  IF Aborted(a, timeout) THEN timeout
  ELSE IF a.hdr \in {"neterr", "neterr-nomsg"} \/ ~Ok(a) THEN a.h
  ELSE a.h + a.b

\* Math.pow(2, attempt)
RECURSIVE Pow2(_)
Pow2(k) == IF k <= 0 THEN 1 ELSE 2 * Pow2(k - 1)

\* sleep(retryDelay * Math.pow(2, attempt))
Backoff(retryDelay, k) == retryDelay * Pow2(k)

\* for (...; attempt < retries; ...)
MutLoopContinuesInclusive(k, retries) == k <= retries
LoopContinues(k, retries) == k < retries

\* if (attempt < retries - 1)
MutShouldSleepAlways(k, retries) == k < retries
ShouldSleep(k, retries) == k < retries - 1

\* lastError = error as Error
MutCatchKeepsFirst(prev, msg) == IF prev = NoError THEN msg ELSE prev
Catch(prev, msg) == msg

\* lastError?.message || 'Unknown error'
FinalMessage(err) == IF err = NoError \/ err = "" THEN Placeholder ELSE err

FetchIdle ==
  /\ fpc = "idle"
  /\ fopts = [retries |-> 0, retryDelay |-> 0, timeout |-> 0]
  /\ attempt = 0
  /\ lastError = NoError
  /\ thrown = [attempts |-> 0, message |-> NoError]
  /\ fstart = 0
  /\ wire = <<>>
  /\ failLog = <<>>
  /\ sleeps = <<>>
  /\ slowest = 0

\* fetchJson(url, {retries, retryDelay, timeout}) is called
FetchJsonCall(r, d, t) ==
  /\ fpc' = "loop"
  /\ fopts' = [retries |-> r, retryDelay |-> d, timeout |-> t]
  /\ attempt' = 0
  /\ lastError' = NoError
  /\ thrown' = [attempts |-> 0, message |-> NoError]
  /\ fstart' = now
  /\ failLog' = <<>>
  /\ sleeps' = <<>>
  /\ slowest' = 0

\* one pass of the loop body: the request, and the catch block up to its sleep
FetchAttemptOn(answers) ==
  /\ fpc = "loop"
  /\ LoopContinues(attempt, fopts.retries)
  /\ \E a \in answers :
       /\ a.hdr = "429" => n429 < Max429
       /\ n429' = IF a.hdr = "429" THEN n429 + 1 ELSE n429
       /\ LET msg == AttemptError(a, fopts.timeout)
           dur == AttemptTime(a, fopts.timeout)
         IN /\ wire' = Append(wire, now)
            /\ now' = now + dur
            /\ slowest' = IF dur > slowest THEN dur ELSE slowest
            /\ IF msg = NoError
               THEN /\ fpc' = "returned"
                    /\ UNCHANGED <<attempt, lastError, failLog>>
               ELSE /\ lastError' = Catch(lastError, msg)
                    /\ failLog' = Append(failLog, msg)
                    /\ IF ShouldSleep(attempt, fopts.retries)
                       THEN fpc' = "backoff" /\ UNCHANGED attempt
                       ELSE fpc' = "loop" /\ attempt' = attempt + 1
  /\ UNCHANGED <<fopts, thrown, fstart, sleeps>>

\* an attempt against a remote end that may take any of the modelled times
FetchAttempt == FetchAttemptOn(Answers(fopts.timeout))

\* an attempt against a remote end that answers at once or not at all
FetchAttemptPrompt == FetchAttemptOn(PromptAnswers(fopts.timeout))

\* await sleep(retryDelay * Math.pow(2, attempt)); attempt++
FetchBackoff ==
  /\ fpc = "backoff"
  /\ sleeps' = Append(sleeps, Backoff(fopts.retryDelay, attempt))
  /\ now' = now + Backoff(fopts.retryDelay, attempt)
  /\ attempt' = attempt + 1
  /\ fpc' = "loop"
  /\ UNCHANGED <<fopts, lastError, thrown, fstart, wire, failLog, slowest>>

\* throw new Error(`Failed after ${retries} attempts: ${...}`)
FetchExhausted ==
  /\ fpc = "loop"
  /\ ~LoopContinues(attempt, fopts.retries)
  /\ thrown' = [attempts |-> fopts.retries, message |-> FinalMessage(lastError)]
  /\ fpc' = "thrown"
  /\ UNCHANGED <<fopts, attempt, lastError, fstart, wire, failLog, sleeps,
                 slowest, now>>

\* a caller of the module invokes fetchJson with options of its choice
FetchStart ==
  /\ fpc = "idle"
  /\ \E r \in 0..MaxRetries, d \in 1..MaxDelay, t \in 1..MaxTimeout :
       FetchJsonCall(r, d, t)
  /\ UNCHANGED <<wire, now>>

\* -------------------------------------------------------- the scheduler
\* the three cron.schedule calls of startScheduler, named by the source
\* their sync writes to data_sync_log: prices, ratings, games
Jobs == {"itad", "protondb", "steam"}

\* startScheduler has returned: three schedules, no tick yet
SchedulerStarted ==
  /\ running = [j \in Jobs |-> 0]
  /\ crashed = FALSE
  /\ ticks = 0
  /\ errorLog = {}
  /\ afterFailure = {}

\* try { await sync } catch (error) { console.error(...) }: a rejection of
\* the sync is logged, and no exception leaves the callback
MutTryCatchRethrows(rejected) == [logged |-> rejected, unhandled |-> rejected]
TryCatch(rejected) == [logged |-> rejected, unhandled |-> FALSE]

\* a schedule fires and node-cron calls the callback, whether or not an
\* earlier call of it has settled: the callback starts its sync
CronTick(j) ==
  /\ ~crashed
  /\ ticks < MaxTicks
  /\ ticks' = ticks + 1
  /\ running' = [running EXCEPT ![j] = @ + 1]
  /\ afterFailure' = IF errorLog # {} THEN afterFailure \cup {j}
                     ELSE afterFailure
  /\ UNCHANGED <<crashed, errorLog>>
  /\ UNCHANGED <<limVars, fetchVars, syncVars, storeVars, queryVars, auditVars>>

\* the sync of `source` settles: in a run of the job the callback goes on
\* after its await; a sync called otherwise leaves the scheduler alone
Settled(source, rejected) ==
  IF running[source] = 0 THEN UNCHANGED jobVars
  ELSE /\ running' = [running EXCEPT ![source] = @ - 1]
       /\ errorLog' = IF TryCatch(rejected).logged THEN errorLog \cup {source}
                      ELSE errorLog
       /\ crashed' = TryCatch(rejected).unhandled
       /\ UNCHANGED <<ticks, afterFailure>>

\* ------------------------------------------------------------ the store
\* SQL NULL, and a column holding a value
Null == <<>>
Some(v) == <<v>>

\* `x.f || null` on a text field: undefined and '' are stored as NULL
OrNull(x, f) == IF f \in DOMAIN x /\ x[f] # "" THEN Some(x[f]) ELSE Null

\* `x.f || null` on a number field: undefined and 0 are stored as NULL
OrNullNumber(x, f) == IF f \in DOMAIN x /\ x[f] # 0 THEN Some(x[f]) ELSE Null

\* `x.f || 0`
OrZero(x, f) == IF f \in DOMAIN x THEN x[f] ELSE 0

\* `x.f ? 1 : 0`
Flag(x, f) == IF f \in DOMAIN x /\ x[f] THEN 1 ELSE 0

\* the tables as one value, and the schema right after its creation
Db ==
  [games |-> games, protondb_ratings |-> protondb_ratings,
   current_prices |-> current_prices, price_history |-> price_history,
   humble_bundles |-> humble_bundles,
   humble_bundle_games |-> humble_bundle_games,
   sqlite_sequence |-> sqlite_sequence]

EmptyDb ==
  [games |-> {}, protondb_ratings |-> {}, current_prices |-> {},
   price_history |-> {}, humble_bundles |-> {}, humble_bundle_games |-> {},
   sqlite_sequence |-> [price_history |-> 0, humble_bundles |-> 0,
                        humble_bundle_games |-> 0]]

\* stmt.run(...) returned / threw; a statement that throws writes nothing
Done(db) == [ok |-> TRUE, db |-> db]
Failed(db) == [ok |-> FALSE, db |-> db]

\* FOREIGN KEY (steam_app_id) REFERENCES games(steam_app_id), foreign_keys = ON
GameExists(db, id) == \E g \in db.games : g.steam_app_id = id

\* FOREIGN KEY (bundle_id) REFERENCES humble_bundles(id)
BundleExists(db, id) == \E b \in db.humble_bundles : b.id = id

\* steamUrl: game.steam_url || `https://store.steampowered.com/app/${id}`
SteamUrl(game) ==
  IF "steam_url" \in DOMAIN game /\ game.steam_url # "" THEN game.steam_url
  ELSE "https://store.steampowered.com/app/" \o ToString(game.steam_app_id)

\* the row written by upsertGame at time t
GameRow(game, t) ==
  [steam_app_id |-> game.steam_app_id, name |-> game.name,
   short_description |-> OrNull(game, "short_description"),
   steam_url |-> SteamUrl(game), last_updated |-> t]

\* INSERT INTO games ... ON CONFLICT(steam_app_id) DO UPDATE SET ...
MutUpsertGameReplaces(db, game, t) ==
  IF "name" \notin DOMAIN game THEN Failed(db)
  ELSE Done([db EXCEPT
               !.games = {g \in @ : g.steam_app_id # game.steam_app_id}
                           \cup {GameRow(game, t)},
               !.protondb_ratings = {r \in @ : r.steam_app_id # game.steam_app_id},
               !.current_prices = {r \in @ : r.steam_app_id # game.steam_app_id},
               !.price_history = {r \in @ : r.steam_app_id # game.steam_app_id},
               !.humble_bundle_games =
                 {r \in @ : r.steam_app_id # game.steam_app_id}])
MutUpsertGameKeepsRow(db, game, t) ==
  IF "name" \notin DOMAIN game THEN Failed(db)
  ELSE IF GameExists(db, game.steam_app_id) THEN Done(db)
  ELSE Done([db EXCEPT !.games = @ \cup {GameRow(game, t)}])
UpsertGame(db, game, t) ==
  IF "name" \notin DOMAIN game THEN Failed(db)      \* name TEXT NOT NULL
  ELSE LET old == {g \in db.games : g.steam_app_id = game.steam_app_id}
       IN Done([db EXCEPT !.games = (@ \ old) \cup {GameRow(game, t)}])

\* ON DELETE CASCADE of the four tables that reference games
MutCascadeKeepsHistory(db, id) ==
  [db EXCEPT
     !.protondb_ratings = {r \in @ : r.steam_app_id # id},
     !.current_prices = {r \in @ : r.steam_app_id # id},
     !.humble_bundle_games = {r \in @ : r.steam_app_id # id}]
Cascade(db, id) ==
  [db EXCEPT
     !.protondb_ratings = {r \in @ : r.steam_app_id # id},
     !.current_prices = {r \in @ : r.steam_app_id # id},
     !.price_history = {r \in @ : r.steam_app_id # id},
     !.humble_bundle_games = {r \in @ : r.steam_app_id # id}]

\* DELETE FROM games WHERE steam_app_id = ?
DeleteGame(db, id) ==
  Done(Cascade([db EXCEPT !.games = {g \in @ : g.steam_app_id # id}], id))

\* the row written by upsertRating
RatingRow(rating) ==
  [steam_app_id |-> rating.steam_app_id, tier |-> rating.tier,
   score |-> OrNullNumber(rating, "score")]

\* INSERT INTO protondb_ratings ... ON CONFLICT(steam_app_id) DO UPDATE SET ...
UpsertRating(db, rating) ==
  IF ~GameExists(db, rating.steam_app_id) THEN Failed(db)
  ELSE LET old == {r \in db.protondb_ratings :
                     r.steam_app_id = rating.steam_app_id}
       IN Done([db EXCEPT !.protondb_ratings = (@ \ old) \cup {RatingRow(rating)}])

\* the values bound by recordPrice and by updateCurrentPrice alike
PriceValues(price) ==
  [steam_app_id |-> price.steam_app_id, store |-> price.store,
   price_usd |-> price.price_usd,
   discount_percent |-> OrZero(price, "discount_percent"),
   is_on_sale |-> Flag(price, "is_on_sale"),
   sale_end_date |-> OrNull(price, "sale_end_date"),
   url |-> OrNull(price, "url")]

\* recordPrice: INSERT INTO price_history (id is AUTOINCREMENT)
RecordPrice(db, price) ==
  IF ~GameExists(db, price.steam_app_id) THEN Failed(db)
  ELSE LET id == db.sqlite_sequence.price_history + 1
       IN Done([db EXCEPT
                  !.price_history = @ \cup {[id |-> id] @@ PriceValues(price)},
                  !.sqlite_sequence.price_history = id])

\* rows of current_prices with the primary key (steam_app_id, store) of `price`
MutSamePairNever(db, price) == {}
SamePair(db, price) ==
  {r \in db.current_prices :
     r.steam_app_id = price.steam_app_id /\ r.store = price.store}

\* INSERT INTO current_prices ... ON CONFLICT(steam_app_id, store) DO UPDATE SET ...
UpsertCurrentPrice(db, price) ==
  IF ~GameExists(db, price.steam_app_id) THEN Failed(db)
  ELSE Done([db EXCEPT
               !.current_prices = (@ \ SamePair(db, price)) \cup {PriceValues(price)}])

\* updateCurrentPrice: recordPrice(price), then the upsert of current_prices
MutUpdateCurrentPriceSkipsHistory(db, price) == UpsertCurrentPrice(db, price)
UpdateCurrentPrice(db, price) ==
  LET h == RecordPrice(db, price)
  IN IF h.ok THEN UpsertCurrentPrice(h.db, price) ELSE h

\* createBundle: INSERT INTO humble_bundles
CreateBundle(db) ==
  LET id == db.sqlite_sequence.humble_bundles + 1
  IN Done([db EXCEPT !.humble_bundles = @ \cup {[id |-> id]},
                     !.sqlite_sequence.humble_bundles = id])

\* addGameToBundle: INSERT INTO humble_bundle_games (bundle_id, steam_app_id, tier)
AddGameToBundle(db, bundleId, game) ==
  IF ~BundleExists(db, bundleId) \/ ~GameExists(db, game.steam_app_id)
  THEN Failed(db)
  ELSE LET id == db.sqlite_sequence.humble_bundle_games + 1
       IN Done([db EXCEPT
                  !.humble_bundle_games = @ \cup
                     {[id |-> id, bundle_id |-> bundleId,
                       steam_app_id |-> game.steam_app_id,
                       tier |-> OrNull(game, "tier")]},
                  !.sqlite_sequence.humble_bundle_games = id])

\* db.transaction(fn)(list): COMMIT when fn returns, ROLLBACK when it throws
MutTransactionKeepsPartial(before, r) == r
Transaction(before, r) == IF r.ok THEN r ELSE Failed(before)

\* the loops of the four batch writes: the first row that throws ends the loop
RECURSIVE UpsertGamesLoop(_, _, _)
UpsertGamesLoop(db, list, t) ==
  IF list = <<>> THEN Done(db)
  ELSE LET r == UpsertGame(db, Head(list), t)
       IN IF r.ok THEN UpsertGamesLoop(r.db, Tail(list), t) ELSE r

RECURSIVE UpsertRatingsLoop(_, _)
UpsertRatingsLoop(db, list) ==
  IF list = <<>> THEN Done(db)
  ELSE LET r == UpsertRating(db, Head(list))
       IN IF r.ok THEN UpsertRatingsLoop(r.db, Tail(list)) ELSE r

RECURSIVE UpdateCurrentPricesLoop(_, _)
UpdateCurrentPricesLoop(db, list) ==
  IF list = <<>> THEN Done(db)
  ELSE LET r == UpdateCurrentPrice(db, Head(list))
       IN IF r.ok THEN UpdateCurrentPricesLoop(r.db, Tail(list)) ELSE r

RECURSIVE AddGamesLoop(_, _, _)
AddGamesLoop(db, bundleId, list) ==
  IF list = <<>> THEN Done(db)
  ELSE LET r == AddGameToBundle(db, bundleId, Head(list))
       IN IF r.ok THEN AddGamesLoop(r.db, bundleId, Tail(list)) ELSE r

UpsertGames(db, list, t) == Transaction(db, UpsertGamesLoop(db, list, t))
UpsertRatings(db, list) == Transaction(db, UpsertRatingsLoop(db, list))
UpdateCurrentPrices(db, list) == Transaction(db, UpdateCurrentPricesLoop(db, list))
AddGamesToBundle(db, bundleId, list) ==
  Transaction(db, AddGamesLoop(db, bundleId, list))

\* what the callers of the repositories pass in
GameIds == 1..NumGames
StoreNames == {"Steam", "GOG"}
GameInputs ==
  UNION {{[steam_app_id |-> id, name |-> "Dota 2"],
          [steam_app_id |-> id, name |-> "Portal",
           short_description |-> "A puzzle game",
           steam_url |-> "https://example.com/portal"],
          [steam_app_id |-> id]} : id \in GameIds}
RatingInputs ==
  {[steam_app_id |-> id, tier |-> "gold"] : id \in GameIds} \cup
  {[steam_app_id |-> 1, tier |-> "platinum", score |-> 90]}
PriceInputs ==
  {[steam_app_id |-> id, store |-> "Steam", price_usd |-> 20] : id \in GameIds} \cup
  {[steam_app_id |-> 1, store |-> "Steam", price_usd |-> 5,
    discount_percent |-> 75, is_on_sale |-> TRUE,
    sale_end_date |-> "2026-12-01", url |-> "https://example.com/deal"],
   [steam_app_id |-> 1, store |-> "GOG", price_usd |-> 20]}
BundleGameInputs == {[steam_app_id |-> id] : id \in GameIds}
Lists(S) == UNION {[1..n -> S] : n \in 1..MaxBatch}
Pairs == GameIds \X StoreNames

\* no request is being handled by the API
NoRequest == [url |-> "none"]
NoResponse == [status |-> 0]

\* no bulk sync has run
NoRun == [source |-> "none"]

\* the database file right after init-db, and no call made yet
DbIdle ==
  /\ games = EmptyDb.games
  /\ protondb_ratings = EmptyDb.protondb_ratings
  /\ current_prices = EmptyDb.current_prices
  /\ price_history = EmptyDb.price_history
  /\ humble_bundles = EmptyDb.humble_bundles
  /\ humble_bundle_games = EmptyDb.humble_bundle_games
  /\ sqlite_sequence = EmptyDb.sqlite_sequence
  /\ calls = 0
  /\ lastCall = [op |-> "none", ok |-> TRUE]
  /\ upserted = [id \in GameIds |-> <<>>]
  /\ priceLog = [pr \in Pairs |-> <<>>]
  /\ cascaded = [pr \in Pairs |-> 0]
  /\ request = NoRequest
  /\ response = NoResponse
  /\ data_sync_log = {}
  /\ lastRun = NoRun
  /\ SchedulerStarted

\* the tables after the call
Commit(db) ==
  /\ games' = db.games
  /\ protondb_ratings' = db.protondb_ratings
  /\ current_prices' = db.current_prices
  /\ price_history' = db.price_history
  /\ humble_bundles' = db.humble_bundles
  /\ humble_bundle_games' = db.humble_bundle_games
  /\ sqlite_sequence' = db.sqlite_sequence

\* a repository method was called and returned or threw
RepoCall(op, r) ==
  /\ calls < MaxCalls
  /\ calls' = calls + 1
  /\ Commit(r.db)
  /\ lastCall' = [op |-> op, ok |-> r.ok]
  /\ UNCHANGED <<limVars, fetchVars, syncVars, queryVars, auditVars, jobVars>>

\* the entries of `list` that are about game id / about the pair pr, in order
ForGame(list, id) == SelectSeq(list, LAMBDA x : x.steam_app_id = id)
ForPair(list, pr) ==
  SelectSeq(list, LAMBDA x : x.steam_app_id = pr[1] /\ x.store = pr[2])

\* number of price updates committed so far
Committed == Cardinality({<<pr, i>> \in Pairs \X (1..MaxHistory) : i <= Len(priceLog[pr])})

\* the games of a call that returned are on record: per id `<<>>`, or whether
\* the row was written more than once and the game passed to its latest upsert
UpsertsLogged(r, list) ==
  upserted' = [id \in GameIds |->
                 LET mine == ForGame(list, id)
                 IN IF r.ok /\ mine # <<>>
                    THEN <<upserted[id] # <<>> \/ Len(mine) > 1, mine[Len(mine)]>>
                    ELSE upserted[id]]

\* the price updates of a call that returned are on record
PricesLogged(r, list) ==
  priceLog' = [pr \in Pairs |->
                 IF r.ok THEN priceLog[pr] \o ForPair(list, pr) ELSE priceLog[pr]]

CallUpsertGame ==
  \E game \in GameInputs :
    LET r == UpsertGame(Db, game, now)
    IN /\ RepoCall("upsertGame", r)
       /\ UpsertsLogged(r, <<game>>)
       /\ UNCHANGED <<priceLog, cascaded>>

CallUpsertGames ==
  \E list \in Lists(GameInputs) :
    LET r == UpsertGames(Db, list, now)
    IN /\ RepoCall("upsertGames", r)
       /\ UpsertsLogged(r, list)
       /\ UNCHANGED <<priceLog, cascaded>>

CallDeleteGame ==
  \E id \in GameIds :
    /\ RepoCall("deleteGame", DeleteGame(Db, id))
    /\ upserted' = [upserted EXCEPT ![id] = <<>>]
    /\ cascaded' = [pr \in Pairs |->
                      IF pr[1] = id THEN Len(priceLog[pr]) ELSE cascaded[pr]]
    /\ UNCHANGED priceLog

CallUpsertRating ==
  \E rating \in RatingInputs :
    /\ RepoCall("upsertRating", UpsertRating(Db, rating))
    /\ UNCHANGED <<upserted, priceLog, cascaded>>

CallUpsertRatings ==
  \E list \in Lists(RatingInputs) :
    /\ RepoCall("upsertRatings", UpsertRatings(Db, list))
    /\ UNCHANGED <<upserted, priceLog, cascaded>>

CallUpdateCurrentPrice ==
  \E price \in PriceInputs :
    /\ Committed < MaxHistory
    /\ LET r == UpdateCurrentPrice(Db, price)
       IN RepoCall("updateCurrentPrice", r) /\ PricesLogged(r, <<price>>)
    /\ UNCHANGED <<upserted, cascaded>>

CallUpdateCurrentPrices ==
  \E list \in Lists(PriceInputs) :
    /\ Committed + Len(list) <= MaxHistory
    /\ LET r == UpdateCurrentPrices(Db, list)
       IN RepoCall("updateCurrentPrices", r) /\ PricesLogged(r, list)
    /\ UNCHANGED <<upserted, cascaded>>

CallCreateBundle ==
  /\ sqlite_sequence.humble_bundles < MaxBundles
  /\ RepoCall("createBundle", CreateBundle(Db))
  /\ UNCHANGED <<upserted, priceLog, cascaded>>

CallAddGamesToBundle ==
  \E bundleId \in 1..MaxBundles, list \in Lists(BundleGameInputs) :
    /\ sqlite_sequence.humble_bundle_games + Len(list) <= MaxBundleRows
    /\ RepoCall("addGamesToBundle", AddGamesToBundle(Db, bundleId, list))
    /\ UNCHANGED <<upserted, priceLog, cascaded>>

\* CURRENT_TIMESTAMP moves on
StoreTick ==
  /\ now < MaxStoreTime
  /\ now' = now + 1
  /\ UNCHANGED <<limFixed, requests, fetchVars, syncVars, dbVars>>

\* getGameById: SELECT g.*, p.* FROM games g LEFT JOIN protondb_ratings p.
\* The columns of the joined row in select order, every value as a nullable
\* column; a game without rating is joined with p.* all NULL.
GameColumns(g) ==
  [steam_app_id |-> Some(g.steam_app_id), name |-> Some(g.name),
   short_description |-> g.short_description,
   steam_url |-> Some(g.steam_url), last_updated |-> Some(g.last_updated)]

RatingColumns(P) ==
  IF P = {} THEN [steam_app_id |-> Null, tier |-> Null, score |-> Null]
  ELSE LET p == CHOOSE r \in P : TRUE
       IN [steam_app_id |-> Some(p.steam_app_id), tier |-> Some(p.tier),
           score |-> p.score]

\* .get() builds one object from the row, column by column: of two columns
\* of one name the later one is the property's value
RowObject(first, later) == later @@ first

\* `if (!game) return null`, then { ...game, current_prices: prices }
GetGameById(db, steamAppId) ==
  LET G == {g \in db.games : g.steam_app_id = steamAppId}
      P == {r \in db.protondb_ratings : r.steam_app_id = steamAppId}
  IN IF G = {} THEN [found |-> FALSE]
     ELSE [found |-> TRUE,
           game |-> RowObject(GameColumns(CHOOSE g \in G : TRUE),
                              RatingColumns(P)),
           current_prices |->
             {r \in db.current_prices : r.steam_app_id = steamAppId}]

\* ------------------------------------------ GET /api/games, getGames
\* A JavaScript number as the route and the repository hold it:
\* a finite integer, NaN or Infinity; JsNull is `null`.
Num(v) == [kind |-> "finite", v |-> v]
NaN == [kind |-> "NaN", v |-> 0]
Infinity == [kind |-> "Infinity", v |-> 0]
JsNull == [kind |-> "null", v |-> 0]
JsTrue == [kind |-> "boolean", v |-> 1]
JsFalse == [kind |-> "boolean", v |-> 0]
Str(s) == [kind |-> "string", s |-> s]
IsFinite(x) == x.kind = "finite"

\* A query-string value is its sequence of characters.
DigitValue ==
  [c \in {"0", "1", "2", "3", "4", "5", "6", "7", "8", "9"} |->
     CASE c = "0" -> 0 [] c = "1" -> 1 [] c = "2" -> 2 [] c = "3" -> 3
       [] c = "4" -> 4 [] c = "5" -> 5 [] c = "6" -> 6 [] c = "7" -> 7
       [] c = "8" -> 8 [] c = "9" -> 9]

RECURSIVE StripLeft(_)
StripLeft(s) == IF s # <<>> /\ Head(s) = " " THEN StripLeft(Tail(s)) ELSE s

RECURSIVE LeadingDigits(_)
LeadingDigits(s) ==
  IF s # <<>> /\ Head(s) \in DOMAIN DigitValue
  THEN <<Head(s)>> \o LeadingDigits(Tail(s))
  ELSE <<>>

RECURSIVE Decimal(_, _)
Decimal(ds, acc) ==
  IF ds = <<>> THEN acc ELSE Decimal(Tail(ds), 10 * acc + DigitValue[Head(ds)])

\* parseInt(s): leading blanks, a sign, then digits up to the first other
\* character; NaN when there is no digit
ParseInt(s) ==
  LET t == StripLeft(s)
      neg == t # <<>> /\ Head(t) = "-"
      u == IF t # <<>> /\ Head(t) \in {"+", "-"} THEN Tail(t) ELSE t
      ds == LeadingDigits(u)
  IN IF ds = <<>> THEN NaN
     ELSE Num(IF neg THEN 0 - Decimal(ds, 0) ELSE Decimal(ds, 0))

\* parseFloat(s) on the values drawn here, which are whole dollars: the
\* digits before a "." or any other character
ParseFloat(s) == ParseInt(s)

\* Math.min(a, b): NaN when either is NaN
MathMin(a, b) ==
  IF ~IsFinite(a) \/ ~IsFinite(b) THEN NaN
  ELSE IF a.v < b.v THEN a ELSE b

\* (page - 1) * limit
Offset(page, limit) ==
  IF ~IsFinite(page) \/ ~IsFinite(limit) THEN NaN
  ELSE Num((page.v - 1) * limit.v)

\* Math.ceil(total / limit), total being a row count
CeilDiv(total, limit) ==
  IF ~IsFinite(limit) THEN NaN
  ELSE IF limit.v = 0 THEN (IF total = 0 THEN NaN ELSE Infinity)
  ELSE IF limit.v > 0 THEN Num((total + limit.v - 1) \div limit.v)
  ELSE Num(0 - (total \div (0 - limit.v)))

\* const { page = 1, ... } = params: the default stands in for undefined only
Default(p, f, d) == IF f \in DOMAIN p THEN p[f] ELSE d

\* MIN(...) / MAX(...) of a column over rows: NULL over no row
MinOf(S) == IF S = {} THEN Null ELSE Some(CHOOSE x \in S : \A y \in S : x <= y)
MaxOf(S) == IF S = {} THEN Null ELSE Some(CHOOSE x \in S : \A y \in S : y <= x)

\* one row of the SELECT ... GROUP BY g.steam_app_id for game g
Joined(db, g) ==
  LET p == {r \in db.protondb_ratings : r.steam_app_id = g.steam_app_id}
      cp == {r \in db.current_prices : r.steam_app_id = g.steam_app_id}
  IN g @@
     [proton_tier |-> IF p = {} THEN Null ELSE Some((CHOOSE r \in p : TRUE).tier),
      proton_score |-> IF p = {} THEN Null ELSE (CHOOSE r \in p : TRUE).score,
      min_price |-> MinOf({r.price_usd : r \in cp}),
      max_discount |-> MaxOf({r.discount_percent : r \in cp}),
      active_sales |-> Cardinality({r \in cp : r.is_on_sale = 1})]

\* `if (x)` on null or a string
Truthy(x) == x.kind = "string" /\ x.s # ""

\* g.name LIKE '%' || search || '%' on the names and search words drawn:
\* LIKE ignores the case of ASCII letters
Like(name, search) == search = "port" /\ name = "Portal"

\* WHERE 1=1 [AND p.tier IN (...)] [AND g.name LIKE $search]
\* protonTier is modelled as the list protonTier.split(',').map(trim) yields
Where(row, p) ==
  /\ Default(p, "protonTier", <<>>) # <<>> =>
       /\ row.proton_tier # Null
       /\ \E i \in DOMAIN p.protonTier : p.protonTier[i] = row.proton_tier[1]
  /\ Truthy(Default(p, "search", JsNull)) => Like(row.name, p.search.s)

\* a bound parameter compared with an aggregate: NULL (and NaN, bound as
\* NULL) on either side leaves the row out
AtLeast(agg, bound) == agg # Null /\ IsFinite(bound) /\ agg[1] >= bound.v
AtMost(agg, bound) == agg # Null /\ IsFinite(bound) /\ agg[1] <= bound.v

Supplied(p, f) == Default(p, f, JsNull) # JsNull

\* the keyword put before each post-aggregation condition, in the order
\* the conditions are appended to the query
MutMaxPriceKeyword(p) == "HAVING"
MaxPriceKeyword(p) == IF Supplied(p, "minPrice") THEN "AND" ELSE "HAVING"

HavingClauses(p) ==
  (IF Supplied(p, "minPrice")
   THEN <<[kw |-> "HAVING", cond |-> "minPrice"]>> ELSE <<>>) \o
  (IF Supplied(p, "maxPrice")
   THEN <<[kw |-> MaxPriceKeyword(p), cond |-> "maxPrice"]>> ELSE <<>>) \o
  (IF Supplied(p, "minDiscount")
   THEN <<[kw |-> IF Supplied(p, "minPrice") \/ Supplied(p, "maxPrice")
                  THEN "AND" ELSE "HAVING",
           cond |-> "minDiscount"]>> ELSE <<>>) \o
  (IF Supplied(p, "onSale")
   THEN <<[kw |-> IF Supplied(p, "minPrice") \/ Supplied(p, "maxPrice")
                     \/ Supplied(p, "minDiscount")
                  THEN "AND" ELSE "HAVING",
           cond |-> "onSale"]>> ELSE <<>>)

\* SQLite prepares the statement: one HAVING, then ANDs
Prepares(clauses) ==
  \A i \in DOMAIN clauses : clauses[i].kw = (IF i = 1 THEN "HAVING" ELSE "AND")

Holds(row, p, cond) ==
  CASE cond = "minPrice" -> AtLeast(row.min_price, p.minPrice)
    [] cond = "maxPrice" -> AtMost(row.min_price, p.maxPrice)
    [] cond = "minDiscount" -> AtLeast(row.max_discount, p.minDiscount)
    [] cond = "onSale" -> row.active_sales > 0

Having(row, p) ==
  \A i \in DOMAIN HavingClauses(p) : Holds(row, p, HavingClauses(p)[i].cond)

\* the rows of the query before ORDER BY and LIMIT
Selected(db, p) ==
  {row \in {Joined(db, g) : g \in db.games} : Where(row, p) /\ Having(row, p)}

\* validSortColumns.includes(sortBy) ? sortBy : 'name'
ValidSortColumns == {"name", "release_date", "min_price", "max_discount", "proton_score"}
SortColumn(p) ==
  IF Default(p, "sortBy", "name") \in ValidSortColumns
  THEN Default(p, "sortBy", "name") ELSE "name"

\* sortOrder.toLowerCase() === 'desc'
ToLowerCase(s) ==
  LET lower == [DESC |-> "desc", Gold |-> "gold", PLATINUM |-> "platinum",
                Diamond |-> "diamond"]
  IN IF s \in DOMAIN lower THEN lower[s] ELSE s
Descending(p) == ToLowerCase(Default(p, "sortOrder", "asc")) = "desc"

\* the names drawn, in the order of SQLite's BINARY collation
NameOrder == <<"Dota 2", "Half-Life", "Portal">>

\* the ORDER BY key of a row as a number: NULL sorts before every value
SortKey(row, col) ==
  IF col = "name" THEN CHOOSE i \in DOMAIN NameOrder : NameOrder[i] = row.name
  ELSE IF col \notin DOMAIN row \/ row[col] = Null THEN 0 - 1
  ELSE row[col][1]

\* row a comes before row b; rows with equal keys stay in the order of the
\* GROUP BY scan, which is by steam_app_id
Before(a, b, col, desc) ==
  LET ka == SortKey(a, col)
      kb == SortKey(b, col)
  IN IF ka = kb THEN a.steam_app_id < b.steam_app_id
     ELSE IF desc THEN kb < ka ELSE ka < kb

\* ORDER BY sortColumn order
RECURSIVE Sorted(_, _, _)
Sorted(rows, col, desc) ==
  IF rows = {} THEN <<>>
  ELSE LET first == CHOOSE r \in rows : \A q \in rows : ~Before(q, r, col, desc)
       IN <<first>> \o Sorted(rows \ {first}, col, desc)

\* LIMIT limit OFFSET offset: a negative LIMIT is no bound, a negative
\* OFFSET is 0
MutLimitOffsetFromZero(list, limit, offset) ==
  SubSeq(list, 1, IF limit < 0 \/ limit > Len(list) THEN Len(list) ELSE limit)
LimitOffset(list, limit, offset) ==
  LET skip == IF offset < 0 THEN 0 ELSE offset
      last == IF limit < 0 \/ skip + limit > Len(list)
              THEN Len(list) ELSE skip + limit
  IN IF skip >= Len(list) THEN <<>> ELSE SubSeq(list, skip + 1, last)

\* getGames(params): throws when SQLite refuses the statement (a misplaced
\* keyword) or a bound value (NaN is bound as NULL, and LIMIT NULL or
\* OFFSET NULL is a datatype mismatch)
Threw == [ok |-> FALSE]
GetGames(db, p) ==
  LET page == Default(p, "page", Num(1))
      limit == Default(p, "limit", Num(50))
      offset == Offset(page, limit)
      rows == Selected(db, p)
      total == Cardinality(rows)
  IN IF ~Prepares(HavingClauses(p)) THEN Threw
     ELSE IF ~IsFinite(limit) \/ ~IsFinite(offset) THEN Threw
     ELSE [ok |-> TRUE,
           games |-> LimitOffset(Sorted(rows, SortColumn(p), Descending(p)),
                                 limit.v, offset.v),
           total |-> total, page |-> page, limit |-> limit,
           totalPages |-> CeilDiv(total, limit)]

\* JSON.stringify writes NaN and Infinity as null
Json(x) == IF x.kind \in {"NaN", "Infinity"} THEN JsNull ELSE x

\* router.get('/'): the query string q holds the parameters that were sent
\* (an absent one is undefined), each as its characters; proton_tier,
\* sort_by, sort_order and search are passed on as they are
QueryParams(q) ==
  LET sent ==
        [page |-> ParseInt(Default(q, "page", <<"1">>)),
         limit |-> MathMin(ParseInt(Default(q, "limit", <<"5", "0">>)), Num(100)),
         sortBy |-> Default(q, "sort_by", "name"),
         sortOrder |-> Default(q, "sort_order", "asc"),
         minPrice |-> IF Default(q, "min_price", <<>>) # <<>>
                      THEN ParseFloat(q.min_price) ELSE JsNull,
         maxPrice |-> IF Default(q, "max_price", <<>>) # <<>>
                      THEN ParseFloat(q.max_price) ELSE JsNull,
         minDiscount |-> IF Default(q, "min_discount", <<>>) # <<>>
                         THEN ParseInt(q.min_discount) ELSE JsNull,
         onSale |-> IF Default(q, "on_sale", <<>>) = <<"t", "r", "u", "e">>
                    THEN JsTrue ELSE JsNull,
         search |-> IF Default(q, "search", "") # "" THEN Str(q.search) ELSE JsNull]
  IN IF "proton_tier" \in DOMAIN q
     THEN sent @@ [protonTier |-> q.proton_tier] ELSE sent

GetApiGames(db, q) ==
  LET result == GetGames(db, QueryParams(q))
  IN IF ~result.ok
     THEN [status |-> 500, body |-> [error |-> "Failed to fetch games"]]
     ELSE [status |-> 200,
           body |-> [games |-> result.games, total |-> result.total,
                     page |-> Json(result.page), limit |-> Json(result.limit),
                     totalPages |-> Json(result.totalPages)]]

\* the catalogue the requests are answered from: n games written by
\* upsertGame, then prices and ratings written by the repositories
CatalogueGame(id) == [steam_app_id |-> id, name |-> NameOrder[(id % 3) + 1]]

\* the store after upsertGame of the games 1..n, each one new
Catalogue(n) ==
  [EmptyDb EXCEPT !.games = {GameRow(CatalogueGame(id), 0) : id \in 1..n}]

QueryPrices ==
  {[steam_app_id |-> 1, store |-> "Steam", price_usd |-> 20],
   [steam_app_id |-> 1, store |-> "GOG", price_usd |-> 5,
    discount_percent |-> 75, is_on_sale |-> TRUE],
   [steam_app_id |-> 2, store |-> "Steam", price_usd |-> 10,
    discount_percent |-> 50, is_on_sale |-> TRUE],
   [steam_app_id |-> 2, store |-> "GOG", price_usd |-> 10]}
QueryRatings ==
  {[steam_app_id |-> 1, tier |-> "platinum", score |-> 90],
   [steam_app_id |-> 2, tier |-> "gold"]}

RECURSIVE WithPrices(_, _)
WithPrices(db, ps) ==
  IF ps = {} THEN db
  ELSE LET p == CHOOSE x \in ps : TRUE
       IN WithPrices(UpdateCurrentPrice(db, p).db, ps \ {p})

RECURSIVE WithRatings(_, _)
WithRatings(db, rs) ==
  IF rs = {} THEN db
  ELSE LET r == CHOOSE x \in rs : TRUE
       IN WithRatings(UpsertRating(db, r).db, rs \ {r})

Catalogues ==
  {WithRatings(WithPrices(Catalogue(SmallCatalogue), ps), rs) :
     ps \in SUBSET QueryPrices, rs \in {{}, QueryRatings}}
  \cup {EmptyDb,
        WithRatings(WithPrices(Catalogue(MaxCatalogue), QueryPrices), QueryRatings)}

\* the query strings drawn
Opt(f, V) == {<<>>} \cup {[x \in {f} |-> v] : v \in V}

FilterRequests ==
  {a @@ b @@ c @@ d @@ e @@ f @@ g @@ h :
     a \in Opt("proton_tier", {<<"gold", "platinum">>}),
     b \in Opt("search", {"port"}),
     c \in Opt("min_price", {<<"1", "0">>}),
     d \in Opt("max_price", {<<"1", "0">>}),
     e \in Opt("min_discount", {<<"5", "0">>}),
     f \in Opt("on_sale", {<<"t", "r", "u", "e">>}),
     g \in {<<>>, [sort_by |-> "min_price", sort_order |-> "DESC"],
            [sort_by |-> "rating"]},
     h \in {<<>>, [page |-> <<"1">>, limit |-> <<"2">>],
            [page |-> <<"2">>, limit |-> <<"2">>],
            [page |-> <<"3">>, limit |-> <<"2">>],
            [page |-> <<"2">>, limit |-> <<"1">>]}}

PageValues == {<<"1">>, <<"2">>, <<"0">>, <<"-", "1">>, <<"a", "b", "c">>}
LimitValues ==
  {<<"1">>, <<"1", "0", "0">>, <<"1", "0", "0", "0">>, <<"0">>, <<"-", "1">>,
   <<"a", "b", "c">>}
PagingRequests ==
  {a @@ b : a \in Opt("page", PageValues), b \in Opt("limit", LimitValues)}

Requests == FilterRequests \cup PagingRequests

\* the handler of GET /api/games answers one request; the filters are
\* drawn on the small catalogues, the large one is there for the page size
HandleGetGames ==
  /\ response = NoResponse
  /\ \E q \in Requests :
       /\ Cardinality(games) > SmallCatalogue => q \in PagingRequests
       /\ request' = q
       /\ response' = GetApiGames(Db, q)
  /\ UNCHANGED <<limVars, fetchVars, syncVars, storeVars, auditVars,
                 jobVars>>

\* res.json(...) has been sent
ResponseSent ==
  /\ response # NoResponse
  /\ request' = NoRequest
  /\ response' = NoResponse
  /\ UNCHANGED <<limVars, fetchVars, syncVars, storeVars, auditVars,
                 jobVars>>

\* ------------------------------------------- bulk syncs, data_sync_log
\* INSERT INTO data_sync_log ... ON CONFLICT(source) DO UPDATE SET ...:
\* the status written is the literal 'success'
LogSync(log, source, t, count) ==
  {r \in log : r.source # source} \cup
  {[source |-> source, last_sync_at |-> t, status |-> "success",
    records_updated |-> count]}

\* what one fetch of the loop came back with: a record to store, null
\* (skipped) or an exception (failed)
Skipped == [skipped |-> TRUE]
FetchThrew == [failed |-> TRUE]
Fetched(o) == "steam_app_id" \in DOMAIN o
FetchOutcomes(ids, S) ==
  {f \in [ids -> S \cup {Skipped, FetchThrew}] :
     \A id \in ids : Fetched(f[id]) => f[id].steam_app_id = id}

\* type ProtonTier
ProtonTier == {"platinum", "gold", "silver", "bronze", "borked", "pending"}

\* what the ProtonDB summary of an app may hold: a tier in any spelling, a
\* tier outside ProtonTier, an empty tier or none, with a score or without
UpstreamData ==
  {[tier |-> "gold"], [tier |-> "Gold"], [tier |-> "PLATINUM", score |-> 90],
   [tier |-> "Diamond"], [tier |-> ""], [score |-> 90]}

\* fetchGameRating on the data fetched: `if (!data || !data.tier) return
\* null`, else the rating with tier: data.tier.toLowerCase()
FetchGameRating(steamAppId, data) ==
  IF "tier" \notin DOMAIN data \/ data.tier = "" THEN Skipped
  ELSE LET rating == [steam_app_id |-> steamAppId,
                      tier |-> ToLowerCase(data.tier)]
       IN IF OrNullNumber(data, "score") = Null THEN rating
          ELSE rating @@ [score |-> data.score]

\* the ids of a set in ascending order
RECURSIVE Ascending(_)
Ascending(S) ==
  IF S = {} THEN <<>>
  ELSE LET least == CHOOSE x \in S : \A y \in S : x <= y
       IN <<least>> \o Ascending(S \ {least})

\* the onProgress argument: null, or a callback, which may throw on some
\* of its calls; the callback syncPopularGames and syncAllRatings pass only
\* logs
NoCallback == [given |-> FALSE, throwsAt |-> {}]
Callback(S) == [given |-> TRUE, throwsAt |-> S]
LogProgress == Callback({})

\* one pass of the loop body of either bulk sync, `before` being the results
\* so far, `o` what the fetch came back with and `r` the upsert of it: a
\* throw of the fetch or of the upsert goes to the catch block; otherwise
\* success++ or skipped++, then onProgress, a throw of which goes to the
\* catch block as well; the catch block does failed++. `progress` lists the
\* calls of onProgress.
Iteration(before, o, r, onProgress, current, total, steamAppId) ==
  LET stored == Fetched(o) /\ r.ok
      caught == o = FetchThrew \/ (Fetched(o) /\ ~r.ok)
      called == ~caught /\ onProgress.given
      threw == called /\ current \in onProgress.throwsAt
  IN [db |-> r.db,
      success |-> before.success + (IF stored THEN 1 ELSE 0),
      skipped |-> before.skipped + (IF ~caught /\ ~stored THEN 1 ELSE 0),
      failed |-> before.failed + (IF caught \/ threw THEN 1 ELSE 0),
      progress |->
        IF called
        THEN Append(before.progress,
                    [current |-> current, total |-> total,
                     steamAppId |-> steamAppId,
                     status |-> IF stored THEN "success" ELSE "skipped"])
        ELSE before.progress]

\* const results = { success: 0, failed: 0, skipped: 0 }
NoResults(db) ==
  [db |-> db, success |-> 0, skipped |-> 0, failed |-> 0, progress |-> <<>>]

\* fetchAndStoreGames after the first k passes of `for (let i = 0; ...)`
RECURSIVE GamesLoop(_, _, _, _, _, _)
GamesLoop(db, ids, k, fetched, t, onProgress) ==
  IF k = 0 THEN NoResults(db)
  ELSE LET before == GamesLoop(db, ids, k - 1, fetched, t, onProgress)
           o == fetched[ids[k]]
           r == IF Fetched(o) THEN UpsertGame(before.db, o, t)
                ELSE Failed(before.db)
       IN Iteration(before, o, r, onProgress, k, Len(ids), ids[k])

\* fetchAndStoreGames: the loop over all of steamAppIds, `return results`
FetchAndStoreGames(db, ids, fetched, t, onProgress) ==
  GamesLoop(db, ids, Len(ids), fetched, t, onProgress)

\* fetchAndStoreRatings: the same loop with upsertRating
RECURSIVE RatingsLoop(_, _, _, _, _)
RatingsLoop(db, ids, k, fetched, onProgress) ==
  IF k = 0 THEN NoResults(db)
  ELSE LET before == RatingsLoop(db, ids, k - 1, fetched, onProgress)
           o == fetched[ids[k]]
           r == IF Fetched(o) THEN UpsertRating(before.db, o)
                ELSE Failed(before.db)
       IN Iteration(before, o, r, onProgress, k, Len(ids), ids[k])

FetchAndStoreRatings(db, ids, fetched, onProgress) ==
  RatingsLoop(db, ids, Len(ids), fetched, onProgress)

\* a bulk sync returned or rejected: `logged` tells whether it reached its
\* INSERT INTO data_sync_log
SyncRun(source, db, outcome, count, logged) ==
  /\ calls < MaxCalls
  /\ calls' = calls + 1
  /\ Commit(db)
  /\ data_sync_log' = IF logged THEN LogSync(data_sync_log, source, now, count)
                      ELSE data_sync_log
  /\ lastRun' = [source |-> source, at |-> now, outcome |-> outcome,
                 count |-> count]
  /\ Settled(source, outcome = "failed" /\ ~logged)
  /\ UNCHANGED <<limVars, fetchVars, syncVars, queryVars,
                 lastCall, upserted, priceLog, cascaded>>

\* syncPopularGames: fetchAllApps (which may throw), fetchAndStoreGames on
\* the apps in the order of their ids, then the log row
RunSyncPopularGames ==
  \/ SyncRun("steam", Db, "failed", 0, FALSE)
  \/ \E apps \in SUBSET GameIds :
       \E fetched \in FetchOutcomes(apps, GameInputs) :
         LET r == FetchAndStoreGames(Db, Ascending(apps), fetched, now,
                                    LogProgress)
         IN SyncRun("steam", r.db,
                    IF r.success > 0 THEN "stored" ELSE "nothing",
                    r.success, TRUE)

\* syncAllRatings: the games without a rating (no rating turns stale within
\* the time modelled); none: return; else fetchAndStoreRatings and the log row
RunSyncAllRatings ==
  LET stale == {g.steam_app_id : g \in games} \
               {r.steam_app_id : r \in protondb_ratings}
  IN IF stale = {} THEN SyncRun("protondb", Db, "nothing", 0, FALSE)
     ELSE \E fetched \in FetchOutcomes(stale, RatingInputs) :
            LET r == FetchAndStoreRatings(Db, Ascending(stale), fetched,
                                         LogProgress)
            IN SyncRun("protondb", r.db,
                       IF r.success > 0 THEN "stored" ELSE "nothing",
                       r.success, TRUE)

\* syncAllPrices: no game: return; fetchMultipleGamePrices (which throws
\* without an API key), updateCurrentPrices in a try/catch, the log row
RunSyncAllPrices ==
  IF games = {} THEN SyncRun("itad", Db, "nothing", 0, FALSE)
  ELSE \/ SyncRun("itad", Db, "failed", 0, FALSE)
       \/ \E allPrices \in Lists(PriceInputs) \cup {<<>>} :
            LET r == UpdateCurrentPrices(Db, allPrices)
            IN SyncRun("itad", r.db,
                       IF ~r.ok THEN "failed"
                       ELSE IF allPrices = <<>> THEN "nothing" ELSE "stored",
                       IF r.ok THEN Len(allPrices) ELSE 0, TRUE)

\* ------------------------------------------------------ the services
\* Times of the bulk syncs are in seconds (1 = 1000 ms).
ServiceRetries == 2
DefaultRetryDelay == 1
WindowSec == 60
CooldownSec == 60
NiceDelaySec == 1
LookupBatchSize == 500
PricesBatchSize == 200
Services == {"steam", "protondb", "itad"}

\* timeout: 10000 (steam, itad lookup), 5000 (protondb), 30000 (itad prices)
ServiceTimeout(s, phase) ==
  IF s = "protondb" THEN 5 ELSE IF s = "itad" /\ phase = "prices" THEN 30 ELSE 10

\* err.message.includes('429') / includes('404') on `Failed after 2 attempts: <message>`
MutIncludesNever(msg, code) == FALSE
Includes(msg, code) == msg = "HTTP " \o code

\* a failure that is neither "not found" nor "rate limited"
Transient(msg) == ~Includes(msg, "404") /\ ~Includes(msg, "429")

\* Math.ceil(n / size)
Batches(n, size) == (n + size - 1) \div size

SyncIdle ==
  /\ svc = "steam"
  /\ spc = "idle"
  /\ idx = 1
  /\ results = [success |-> 0, failed |-> 0, skipped |-> 0]
  /\ found = 0
  /\ cooldowns = 0
  /\ n429 = 0
  /\ transient = 0
  /\ detail = [outcome |-> "none", transient |-> FALSE]

\* the promise of fetchJson has been consumed by the caller's await
FetchSettled ==
  /\ fpc' = "idle"
  /\ fopts' = [retries |-> 0, retryDelay |-> 0, timeout |-> 0]
  /\ attempt' = 0
  /\ lastError' = NoError
  /\ thrown' = [attempts |-> 0, message |-> NoError]
  /\ fstart' = 0
  /\ failLog' = <<>>
  /\ sleeps' = <<>>
  /\ slowest' = 0
  /\ UNCHANGED wire

\* fetchAndStoreGames / fetchAndStoreRatings / syncAllPrices is called with NumIds ids
SyncStart ==
  /\ spc = "idle"
  /\ svc' \in Services
  /\ spc' = IF svc' = "itad" THEN "lookup" ELSE "ids"
  /\ UNCHANGED <<idx, results, found, cooldowns, n429, transient, detail>>
  /\ UNCHANGED <<limVars, fetchVars, dbVars>>

\* rateLimiter.execute(() => fetchJson(url, { retries: 2, timeout })): one pass
\* of waitForSlot by the only caller, then either the sleep or the fetchJson call
SyncAcquire ==
  /\ spc \in {"ids", "lookup", "prices"}
  /\ fpc = "idle"
  /\ LET kept == Trim(requests, now, perMilliseconds)
     IN IF MustWait(kept, maxRequests)
        THEN /\ requests' = kept
             /\ now' = now + WaitTime(kept, now, perMilliseconds)
             /\ UNCHANGED <<admitLog, fetchVars>>
        ELSE /\ requests' = Append(kept, now)
             /\ admitLog' = Append(admitLog, [who |-> 1, at |-> now])
             /\ FetchJsonCall(ServiceRetries, DefaultRetryDelay,
                              ServiceTimeout(svc, spc))
             /\ UNCHANGED <<now, wire>>
  /\ UNCHANGED <<maxRequests, perMilliseconds, pc, wake, callTime, rounds,
                 opLog, lastCheck>>
  /\ UNCHANGED <<syncVars, dbVars>>

\* the loop moves on to the next id, or returns the results
NextId(i) ==
  IF i >= NumIds THEN spc' = "finished" /\ idx' = idx
  ELSE spc' = "ids" /\ idx' = i + 1

\* steam.fetchAppDetails got data: a game, or something that is not one; then
\* fetchAndStoreGames counts it and sleeps 1 s
SteamGotData ==
  /\ svc = "steam" /\ spc = "ids" /\ fpc = "returned"
  /\ \E isGame \in BOOLEAN :
       /\ results' = IF isGame THEN [results EXCEPT !.success = @ + 1]
                     ELSE [results EXCEPT !.skipped = @ + 1]
       /\ detail' = [outcome |-> IF isGame THEN "game" ELSE "null",
                     transient |-> FALSE]
  /\ now' = now + NiceDelaySec
  /\ cooldowns' = 0
  /\ NextId(idx)
  /\ FetchSettled
  /\ UNCHANGED <<svc, found, n429, transient>>
  /\ UNCHANGED <<limFixed, requests, dbVars>>

\* steam.fetchAppDetails caught a 429: sleep(60000), then fetchAppDetails again
SteamRateLimited ==
  /\ svc = "steam" /\ spc = "ids" /\ fpc = "thrown"
  /\ Includes(thrown.message, "429")
  /\ now' = now + CooldownSec
  /\ cooldowns' = cooldowns + 1
  /\ FetchSettled
  /\ UNCHANGED <<svc, spc, idx, results, found, n429, transient, detail>>
  /\ UNCHANGED <<limFixed, requests, dbVars>>

\* steam.fetchAppDetails caught any other error: logs it and returns null;
\* fetchAndStoreGames counts the id as skipped and sleeps 1 s
SteamFailed ==
  /\ svc = "steam" /\ spc = "ids" /\ fpc = "thrown"
  /\ ~Includes(thrown.message, "429")
  /\ results' = [results EXCEPT !.skipped = @ + 1]
  /\ detail' = [outcome |-> "null", transient |-> Transient(thrown.message)]
  /\ transient' = IF Transient(thrown.message) THEN transient + 1 ELSE transient
  /\ now' = now + NiceDelaySec
  /\ cooldowns' = 0
  /\ NextId(idx)
  /\ FetchSettled
  /\ UNCHANGED <<svc, found, n429>>
  /\ UNCHANGED <<limFixed, requests, dbVars>>

\* protondb.fetchGameRating got data, with or without a tier
ProtonGotData ==
  /\ svc = "protondb" /\ spc = "ids" /\ fpc = "returned"
  /\ \E hasTier \in BOOLEAN :
       /\ results' = IF hasTier THEN [results EXCEPT !.success = @ + 1]
                     ELSE [results EXCEPT !.skipped = @ + 1]
       /\ detail' = [outcome |-> IF hasTier THEN "rating" ELSE "null",
                     transient |-> FALSE]
  /\ NextId(idx)
  /\ FetchSettled
  /\ UNCHANGED <<svc, found, cooldowns, n429, transient, now>>
  /\ UNCHANGED <<limFixed, requests, dbVars>>

\* protondb.fetchGameRating caught an error: null on 404, otherwise rethrown
\* and counted as failed by fetchAndStoreRatings
ProtonFailed ==
  /\ svc = "protondb" /\ spc = "ids" /\ fpc = "thrown"
  /\ IF Includes(thrown.message, "404")
     THEN /\ results' = [results EXCEPT !.skipped = @ + 1]
          /\ detail' = [outcome |-> "null", transient |-> FALSE]
          /\ UNCHANGED transient
     ELSE /\ results' = [results EXCEPT !.failed = @ + 1]
          /\ detail' = [outcome |-> "rejected",
                        transient |-> Transient(thrown.message)]
          /\ transient' = IF Transient(thrown.message) THEN transient + 1
                          ELSE transient
  /\ NextId(idx)
  /\ FetchSettled
  /\ UNCHANGED <<svc, found, cooldowns, n429, now>>
  /\ UNCHANGED <<limFixed, requests, dbVars>>

\* itad: the next lookup batch, or on to the price phase, or `return []`
AfterLookup(batch, size) ==
  IF batch < Batches(NumIds, LookupBatchSize) THEN spc' = "lookup" /\ idx' = batch + 1
  ELSE IF size = 0 THEN spc' = "finished" /\ idx' = idx
  ELSE spc' = "prices" /\ idx' = 1

\* itad.lookupGameIds ended: a map of the ids found, or an empty map on error
ItadLookupDone ==
  /\ svc = "itad" /\ spc = "lookup" /\ fpc \in {"returned", "thrown"}
  /\ \E hits \in 0..NumIds :
       /\ fpc = "thrown" => hits = 0
       /\ found' = found + hits
       /\ AfterLookup(idx, found + hits)
  /\ transient' = IF fpc = "thrown" /\ Transient(thrown.message)
                  THEN transient + 1 ELSE transient
  /\ FetchSettled
  /\ UNCHANGED <<svc, results, cooldowns, n429, detail, now>>
  /\ UNCHANGED <<limFixed, requests, dbVars>>

\* itad.fetchMultipleGamePrices: a price batch ended: its prices are collected,
\* or its error is logged; after the last batch syncAllPrices stores the prices
\* and returns { success, failed: 0, skipped: 0 }
ItadPricesDone ==
  /\ svc = "itad" /\ spc = "prices" /\ fpc \in {"returned", "thrown"}
  /\ \E prices \in 0..1 :
       /\ fpc = "thrown" => prices = 0
       /\ results' = [success |-> results.success + prices, failed |-> 0,
                      skipped |-> 0]
  /\ transient' = IF fpc = "thrown" /\ Transient(thrown.message)
                  THEN transient + 1 ELSE transient
  /\ IF idx < Batches(found, PricesBatchSize)
     THEN spc' = "prices" /\ idx' = idx + 1
     ELSE spc' = "finished" /\ idx' = idx
  /\ FetchSettled
  /\ UNCHANGED <<svc, found, cooldowns, n429, detail, now>>
  /\ UNCHANGED <<limFixed, requests, dbVars>>

LimiterOfService ==
  /\ maxRequests \in 1..MaxN
  /\ perMilliseconds = WindowSec
  /\ requests = <<>>
  /\ now = 0
  /\ pc = [c \in Callers |-> "idle"]
  /\ wake = [c \in Callers |-> 0]
  /\ callTime = [c \in Callers |-> 0]
  /\ rounds = [c \in Callers |-> 0]
  /\ admitLog = <<>>
  /\ opLog = <<>>
  /\ lastCheck = [quietRun |-> 0, admitted |-> FALSE, aged |-> FALSE]

InitSync == LimiterOfService /\ FetchIdle /\ SyncIdle /\ DbIdle

NextSync ==
  \/ SyncStart
  \/ SyncAcquire
  \/ FetchAttemptPrompt /\ UNCHANGED <<limFixed, requests, syncFixed, dbVars>>
  \/ FetchBackoff /\ UNCHANGED <<limFixed, requests, syncFixed, n429, dbVars>>
  \/ FetchExhausted /\ UNCHANGED <<limFixed, requests, syncFixed, n429, dbVars>>
  \/ SteamGotData
  \/ SteamRateLimited
  \/ SteamFailed
  \/ ProtonGotData
  \/ ProtonFailed
  \/ ItadLookupDone
  \/ ItadPricesDone

SpecSync == InitSync /\ [][NextSync]_vars

\* ----------------------------------------------------- specifications
Init == LimiterInit /\ FetchIdle /\ SyncIdle /\ DbIdle

Next ==
  \/ \E c \in Callers : Call(c)
  \/ \E c \in Callers : Wake(c)
  \/ \E c \in Callers : Invoke(c)
  \/ Tick

Spec == Init /\ [][Next]_vars

NextLive ==
  \/ \E c \in Callers : Call(c)
  \/ \E c \in Callers : Wake(c)
  \/ \E c \in Callers : Invoke(c)
  \/ TickOnTime

LiveSpec ==
  /\ Init
  /\ [][NextLive]_vars
  /\ WF_vars(TickOnTime)
  /\ \A c \in Callers : WF_vars(Wake(c)) /\ WF_vars(Invoke(c))

LimiterUnused ==
  /\ maxRequests = 1
  /\ perMilliseconds = 1
  /\ requests = <<>>
  /\ now = 0
  /\ pc = [c \in Callers |-> "idle"]
  /\ wake = [c \in Callers |-> 0]
  /\ callTime = [c \in Callers |-> 0]
  /\ rounds = [c \in Callers |-> 0]
  /\ admitLog = <<>>
  /\ opLog = <<>>
  /\ lastCheck = [quietRun |-> 0, admitted |-> FALSE, aged |-> FALSE]


InitFetch == LimiterUnused /\ FetchIdle /\ SyncIdle /\ DbIdle

NextFetch ==
  \/ FetchStart /\ UNCHANGED <<limFixed, requests, syncFixed, n429, dbVars>>
  \/ FetchAttempt /\ UNCHANGED <<limFixed, requests, syncFixed, dbVars>>
  \/ FetchBackoff /\ UNCHANGED <<limFixed, requests, syncFixed, n429, dbVars>>
  \/ FetchExhausted /\ UNCHANGED <<limFixed, requests, syncFixed, n429, dbVars>>

SpecFetch == InitFetch /\ [][NextFetch]_vars

InitStore == LimiterUnused /\ FetchIdle /\ SyncIdle /\ DbIdle

NextStore ==
  \/ CallUpsertGame
  \/ CallUpsertGames
  \/ CallDeleteGame
  \/ CallUpsertRating
  \/ CallUpsertRatings
  \/ CallUpdateCurrentPrice
  \/ CallUpdateCurrentPrices
  \/ CallCreateBundle
  \/ CallAddGamesToBundle
  \/ StoreTick

SpecStore == InitStore /\ [][NextStore]_vars

InitQuery ==
  /\ LimiterUnused /\ FetchIdle /\ SyncIdle
  /\ \E db \in Catalogues :
       /\ games = db.games
       /\ protondb_ratings = db.protondb_ratings
       /\ current_prices = db.current_prices
       /\ price_history = db.price_history
       /\ humble_bundles = db.humble_bundles
       /\ humble_bundle_games = db.humble_bundle_games
       /\ sqlite_sequence = db.sqlite_sequence
  /\ calls = 0
  /\ lastCall = [op |-> "none", ok |-> TRUE]
  /\ upserted = [id \in GameIds |-> <<>>]
  /\ priceLog = [pr \in Pairs |-> <<>>]
  /\ cascaded = [pr \in Pairs |-> 0]
  /\ request = NoRequest
  /\ response = NoResponse
  /\ data_sync_log = {}
  /\ lastRun = NoRun
  /\ SchedulerStarted

NextQuery ==
  \/ HandleGetGames
  \/ ResponseSent

SpecQuery == InitQuery /\ [][NextQuery]_vars

InitAudit == LimiterUnused /\ FetchIdle /\ SyncIdle /\ DbIdle

NextAudit ==
  \/ RunSyncPopularGames
  \/ RunSyncAllRatings
  \/ RunSyncAllPrices
  \/ StoreTick

SpecAudit == InitAudit /\ [][NextAudit]_vars

\* the scheduler: ticks of the three schedules and the runs they started
\* coming to their end
RunSettles(j) ==
  /\ ~crashed
  /\ running[j] > 0
  /\ calls < MaxJobRuns
  /\ IF j = "itad" THEN RunSyncAllPrices
     ELSE IF j = "protondb" THEN RunSyncAllRatings
     ELSE RunSyncPopularGames

NextJobs ==
  \/ \E j \in Jobs : CronTick(j)
  \/ \E j \in Jobs : RunSettles(j)

SpecJobs == InitAudit /\ [][NextJobs]_vars

\* ------------------------------------------------ history operators
Recorded(c) == Cardinality({i \in DOMAIN admitLog : admitLog[i].who = c})
Invoked(c) == Cardinality({i \in DOMAIN opLog : opLog[i].who = c})
AdmitAt(c) == (CHOOSE i \in DOMAIN admitLog : admitLog[i].who = c)
OpAt(c) == (CHOOSE i \in DOMAIN opLog : opLog[i].who = c)
\* admitted timestamps in the window (T - W, T]
InWindow(T) == {i \in DOMAIN admitLog :
                  T - perMilliseconds < admitLog[i].at /\ admitLog[i].at <= T}
Called == {c \in Callers : pc[c] # "idle"}
Immediate == {c \in Callers : rounds[c] = 0 /\ pc[c] \in {"admitted", "done"}}
SameInstant == /\ Called # {}
               /\ \A c, d \in Called : callTime[c] = callTime[d]
               /\ Cardinality(Called) > maxRequests
StartOfBurst == callTime[CHOOSE c \in Called : TRUE]

\* ------------------------------------------------------------ claims

\* C1 (as stated): for every limiter (any maxRequests N, any window W) and
\* every interleaving of callers, every window (T - W, T] holds at most N
\* admitted timestamps.
C1_Original == \A T \in 0..MaxTime : Cardinality(InWindow(T)) <= maxRequests

\* The window bound for limiters with maxRequests N >= 1: every window
\* (T - W, T] holds at most N admitted timestamps.
WindowBoundPositiveN ==
  maxRequests >= 1 => \A T \in 0..MaxTime : Cardinality(InWindow(T)) <= maxRequests

\* the window bound at work: a full window made a caller wait, admitted later
WindowBoundReached ==
  /\ maxRequests >= 1
  /\ Len(admitLog) > maxRequests
  /\ \E c \in Callers : rounds[c] > 0 /\ pc[c] = "done"

\* C2: under any interleaving each call records exactly one timestamp, its
\* operation runs exactly once and not before its own admission, and no
\* recorded timestamp is lost from requests while it is still inside the window.
C2_ExactlyOnce ==
  /\ \A c \in Callers :
       /\ pc[c] \in {"idle", "sleeping"} => Recorded(c) = 0 /\ Invoked(c) = 0
       /\ pc[c] = "admitted" => Recorded(c) = 1 /\ Invoked(c) = 0
       /\ pc[c] = "done" => /\ Recorded(c) = 1
                            /\ Invoked(c) = 1
                            /\ opLog[OpAt(c)].at >= admitLog[AdmitAt(c)].at
  /\ Len(requests) <= Len(admitLog)
  /\ \A i \in 1..Len(requests) :
       requests[i] = admitLog[Len(admitLog) - Len(requests) + i].at
  /\ \A j \in 1..(Len(admitLog) - Len(requests)) :
       now - admitLog[j].at >= perMilliseconds

\* C2 witness: contention: two calls have run their operation while a third,
\* which had to wait, is still asleep
C2_Witness ==
  /\ maxRequests >= 1
  /\ Cardinality({c \in Callers : pc[c] = "done"}) >= 2
  /\ \E c \in Callers : pc[c] = "sleeping" /\ rounds[c] > 0
  /\ Len(requests) < Len(admitLog)

\* C3 (as stated): on a fresh limiter for N per W, when k > N calls are issued
\* at the same instant, exactly N are admitted at once and no other operation
\* starts before W ms after that instant.
C3_Original ==
  SameInstant =>
    /\ Cardinality(Immediate) = maxRequests
    /\ \A i \in DOMAIN opLog :
         opLog[i].who \notin Immediate => opLog[i].at >= StartOfBurst + perMilliseconds

\* The burst scenario for limiters with N >= 1.
BurstPositiveN ==
  (maxRequests >= 1 /\ perMilliseconds >= 1 /\ SameInstant) =>
    /\ Cardinality(Immediate) = maxRequests
    /\ \A i \in DOMAIN opLog :
         opLog[i].who \notin Immediate => opLog[i].at >= StartOfBurst + perMilliseconds

\* the burst scenario at work: one of its delayed operations has run
BurstReached ==
  /\ maxRequests >= 1 /\ perMilliseconds >= 1 /\ SameInstant
  /\ Called = Callers
  /\ \E c \in Called : rounds[c] > 0 /\ pc[c] = "done"

\* C4: with time advancing and due sleeps firing, every caller that waits is
\* admitted and runs, after fewer wait-and-retry rounds than there are callers;
\* and once every admission is at least W ms old, each of the next N calls of
\* waitForSlot (a new call, or the re-check of a caller already waiting) admits
\* without waiting.
C4_Terminates ==
  /\ \A c \in Callers : (pc[c] \in {"sleeping", "admitted"}) ~> (pc[c] = "done")
  /\ [](\A c \in Callers : rounds[c] < NumCallers)
  /\ []((lastCheck.quietRun >= 1 /\ lastCheck.quietRun <= maxRequests)
          => lastCheck.admitted)

\* C4 witness: a caller went through more than one wait round and finished,
\* and a later run of waitForSlot found the window clear
C4_Witness ==
  /\ \E c \in Callers : rounds[c] >= 2 /\ pc[c] = "done"
  /\ maxRequests >= 1
  /\ lastCheck.aged /\ lastCheck.quietRun = maxRequests /\ lastCheck.admitted

\* ------------------------------------------------- fetchJson claims
Min(a, b) == IF a < b THEN a ELSE b
RECURSIVE SumSeq(_)
SumSeq(q) == IF q = <<>> THEN 0 ELSE Head(q) + SumSeq(Tail(q))
Failures == Len(failLog)
LastFailure == failLog[Len(failLog)]

\* C5: fetchJson makes attempts 0,1,2,... until the first success or until
\* `retries` requests in total; none after a success; after failed attempt k that
\* is not the last it sleeps exactly retryDelay * 2^k, never after the last; and
\* every kind of failure uses up one attempt of the same budget.
C5_RetryBudget ==
  /\ Len(wire) <= fopts.retries
  /\ fpc \in {"loop", "backoff"} => Len(wire) = Failures
  /\ fpc = "returned" => Len(wire) = Failures + 1
  /\ fpc = "thrown" => Len(wire) = fopts.retries /\ Failures = fopts.retries
  /\ Len(sleeps) = (IF fpc = "backoff" THEN Failures - 1
                    ELSE IF fopts.retries = 0 THEN 0
                    ELSE Min(Failures, fopts.retries - 1))
  /\ \A k \in 0..(Len(sleeps) - 1) : sleeps[k + 1] = fopts.retryDelay * (2 ^ k)

\* C5 witness: retries = 3, two failures of different kinds, then a success
C5_Witness ==
  /\ fopts.retries = 3
  /\ fpc = "returned"
  /\ Failures = 2 /\ failLog[1] # failLog[2]
  /\ Len(wire) = 3

\* C6 (as stated): for every value of retries, the error thrown when the budget
\* is exhausted carries the number of attempts made and the message of the
\* error of the last attempt, never a placeholder.
C6_Original ==
  fpc = "thrown" =>
    /\ thrown.attempts = Len(wire)
    /\ Failures >= 1
    /\ thrown.message = LastFailure
    /\ thrown.message # Placeholder

\* C6 (amended): for retries >= 1 the thrown error carries the number of
\* attempts made and the message of the last attempt's error, the placeholder
\* standing in only when that message is empty; for retries = 0 no attempt is
\* made and the error carries the placeholder.
C6_LastError ==
  fpc = "thrown" =>
    /\ thrown.attempts = Len(wire)
    /\ fopts.retries >= 1 =>
         /\ Failures >= 1
         /\ thrown.message = (IF LastFailure = "" THEN Placeholder ELSE LastFailure)
    /\ fopts.retries = 0 => Failures = 0 /\ thrown.message = Placeholder

\* C6 witness: the budget ran out on an error other than the first one
C6_Witness ==
  /\ fpc = "thrown"
  /\ fopts.retries >= 2
  /\ failLog[1] # LastFailure
  /\ LastFailure # ""

\* C7 (as stated): no attempt outlasts the timeout, so a finished call took at
\* most retries * timeout plus its backoff sleeps, whatever the remote end does.
C7_Original ==
  /\ slowest <= fopts.timeout
  /\ fpc \in {"returned", "thrown"} =>
       now - fstart <= fopts.retries * fopts.timeout + SumSeq(sleeps)

\* --------------------------------------------------- service claims
\* requests put on the wire in the window (T - W, T]
OnWire(T) == {i \in DOMAIN wire : T - perMilliseconds < wire[i] /\ wire[i] <= T}

\* C8 (as stated): counting every attempt of every call, the requests a service
\* sends in any rolling window never exceed its limiter's maximum.
C8_Original ==
  \A j \in DOMAIN wire : Cardinality(OnWire(wire[j])) <= maxRequests

\* C9 (as stated): a fetchAppDetails call takes the 60 s cool-down at most
\* once, whatever the upstream keeps answering.
C9_Original == cooldowns <= 1

\* C10 (as stated): an id or batch whose request fails for good on a transient
\* error is counted in `failed`, and the single-id fetch rejects on it.
C10_Original ==
  /\ spc = "finished" => results.failed >= transient
  /\ detail.transient => detail.outcome = "rejected"

\* --------------------------------------------------------- store claims
Ids(T) == {r.steam_app_id : r \in T}
RowsOf(T, id) == {r \in T : r.steam_app_id = id}
Range(list) == {list[i] : i \in DOMAIN list}
Children(db) == db.protondb_ratings \cup db.current_prices \cup db.price_history
CurrentOf(pr) ==
  {r \in current_prices : r.steam_app_id = pr[1] /\ r.store = pr[2]}
HistoryOf(pr) ==
  {h \in price_history : h.steam_app_id = pr[1] /\ h.store = pr[2]}
Latest(H) == CHOOSE h \in H : \A k \in H : k.id <= h.id
Snapshot(h) ==
  [steam_app_id |-> h.steam_app_id, store |-> h.store,
   price_usd |-> h.price_usd, discount_percent |-> h.discount_percent,
   is_on_sale |-> h.is_on_sale, sale_end_date |-> h.sale_end_date,
   url |-> h.url]
Forget(g) ==
  [steam_app_id |-> g.steam_app_id, name |-> g.name,
   short_description |-> g.short_description, steam_url |-> g.steam_url]

\* C11: in every reachable state every protondb_ratings, current_prices and
\* price_history row references an existing games row; a single or batch write
\* that names a game that does not exist throws and leaves every table as it
\* was; and deleteGame(G) leaves no game, rating, current-price or
\* price-history row for G.
C11_ReferentialIntegrity ==
  /\ Ids(Children(Db)) \subseteq Ids(games)
  /\ \A rating \in RatingInputs :
       rating.steam_app_id \notin Ids(games)
         => UpsertRating(Db, rating) = Failed(Db)
  /\ \A price \in PriceInputs :
       price.steam_app_id \notin Ids(games)
         => UpdateCurrentPrice(Db, price) = Failed(Db)
  /\ \A list \in Lists(RatingInputs) :
       ~(Ids(Range(list)) \subseteq Ids(games))
         => UpsertRatings(Db, list) = Failed(Db)
  /\ \A list \in Lists(PriceInputs) :
       ~(Ids(Range(list)) \subseteq Ids(games))
         => UpdateCurrentPrices(Db, list) = Failed(Db)
  /\ \A id \in GameIds :
       LET after == DeleteGame(Db, id).db
       IN id \notin Ids(after.games) \cup Ids(Children(after))

\* a game with committed price updates was deleted
C11_Witness ==
  /\ lastCall = [op |-> "deleteGame", ok |-> TRUE]
  /\ \E pr \in Pairs : cascaded[pr] > 0 /\ pr[1] \notin Ids(games)

\* the result r of a batch write whose loop ends as `loop`
Atomic(r, loop) == IF loop.ok THEN r = loop ELSE r = Failed(Db)

\* C12: in every reachable state and for every batch, upsertGames,
\* upsertRatings, updateCurrentPrices and addGamesToBundle either apply every
\* row of the batch, when no row throws, or throw and leave every table and
\* AUTOINCREMENT counter (price_history included) exactly as before the call.
C12_AtomicBatches ==
  /\ \A list \in Lists(GameInputs) :
       Atomic(UpsertGames(Db, list, now), UpsertGamesLoop(Db, list, now))
  /\ \A list \in Lists(RatingInputs) :
       Atomic(UpsertRatings(Db, list), UpsertRatingsLoop(Db, list))
  /\ \A list \in Lists(PriceInputs) :
       Atomic(UpdateCurrentPrices(Db, list), UpdateCurrentPricesLoop(Db, list))
  /\ \A bundleId \in 1..MaxBundles, list \in Lists(BundleGameInputs) :
       Atomic(AddGamesToBundle(Db, bundleId, list),
              AddGamesLoop(Db, bundleId, list))

\* a price batch threw in a state where one of its rows could have been written
C12_Witness ==
  /\ lastCall = [op |-> "updateCurrentPrices", ok |-> FALSE]
  /\ \E list \in Lists(PriceInputs) :
       LET loop == UpdateCurrentPricesLoop(Db, list)
       IN ~loop.ok /\ loop.db # Db

\* C13: current_prices holds at most one row per (game, store), and that row
\* holds the price, discount, on-sale flag, sale end date and url of the most
\* recent committed update of the pair.
C13_OneRowPerPair ==
  \A pr \in Pairs :
    /\ Cardinality(CurrentOf(pr)) <= 1
    /\ \A r \in CurrentOf(pr) :
         /\ priceLog[pr] # <<>>
         /\ r = PriceValues(priceLog[pr][Len(priceLog[pr])])

\* a pair was updated twice, with different values
C13_Witness ==
  /\ lastCall.op \in {"updateCurrentPrice", "updateCurrentPrices"}
  /\ lastCall.ok
  /\ \E pr \in Pairs :
       /\ Len(priceLog[pr]) >= 2
       /\ priceLog[pr][1] # priceLog[pr][2]
       /\ CurrentOf(pr) # {}

\* a current price and the latest history row of its pair go together, and an
\* update writes both or neither
Paired ==
  /\ \A pr \in Pairs :
       /\ CurrentOf(pr) # {} <=> HistoryOf(pr) # {}
       /\ \A r \in CurrentOf(pr) : r = Snapshot(Latest(HistoryOf(pr)))
  /\ \A price \in PriceInputs :
       LET r == UpdateCurrentPrice(Db, price)
           added == r.db.price_history \ price_history
       IN IF r.ok
          THEN /\ price_history \subseteq r.db.price_history
               /\ Cardinality(added) = 1
               /\ \A h \in added : Snapshot(h) = PriceValues(price)
               /\ PriceValues(price) \in r.db.current_prices
          ELSE r.db = Db
  /\ \A list \in Lists(PriceInputs) :
       LET r == UpdateCurrentPrices(Db, list)
       IN IF r.ok
          THEN Cardinality(r.db.price_history)
                 = Cardinality(price_history) + Len(list)
          ELSE r.db = Db

\* C14 as stated: every update appends exactly one price_history row with the
\* same values, both writes happen or neither, and the number of history rows
\* of a (game, store) pair equals the number of committed updates of the pair.
C14_Original ==
  /\ Paired
  /\ \A pr \in Pairs : Cardinality(HistoryOf(pr)) = Len(priceLog[pr])

\* C14: every update appends exactly one price_history row with the same
\* values, both writes happen or neither, and the number of history rows of a
\* (game, store) pair equals the number of committed updates of the pair since
\* the game was last deleted.
C14_HistoryFollowsUpdates ==
  /\ Paired
  /\ \A pr \in Pairs :
       Cardinality(HistoryOf(pr)) = Len(priceLog[pr]) - cascaded[pr]

\* a pair was updated twice and holds two history rows
C14_Witness ==
  /\ lastCall = [op |-> "updateCurrentPrice", ok |-> TRUE]
  /\ \E pr \in Pairs : Cardinality(HistoryOf(pr)) >= 2

Answered == response # NoResponse
PricesOf(id) == {r \in current_prices : r.steam_app_id = id}
Returned == {response.body.games[i].steam_app_id : i \in DOMAIN response.body.games}

\* game g satisfies every filter that request q supplies, read off the tables
Satisfies(g, q) ==
  /\ "proton_tier" \in DOMAIN q =>
       \E r \in protondb_ratings :
         r.steam_app_id = g.steam_app_id /\ r.tier \in Range(q.proton_tier)
  /\ "search" \in DOMAIN q => Like(g.name, q.search)
  /\ "min_price" \in DOMAIN q =>
       /\ PricesOf(g.steam_app_id) # {}
       /\ \A r \in PricesOf(g.steam_app_id) : r.price_usd >= ParseFloat(q.min_price).v
  /\ "max_price" \in DOMAIN q =>
       \E r \in PricesOf(g.steam_app_id) : r.price_usd <= ParseFloat(q.max_price).v
  /\ "min_discount" \in DOMAIN q =>
       \E r \in PricesOf(g.steam_app_id) :
         r.discount_percent >= ParseInt(q.min_discount).v
  /\ "on_sale" \in DOMAIN q =>
       \E r \in PricesOf(g.steam_app_id) : r.is_on_sale = 1
Matching(q) == {g.steam_app_id : g \in {x \in games : Satisfies(x, q)}}

\* C16: for every combination of the filters tier, search, minPrice,
\* maxPrice, minDiscount and onSale=true the query is accepted by SQLite and
\* selects exactly the games satisfying all supplied filters (price bounds
\* inclusive on the cheapest store row, discount bound inclusive on the
\* largest discount, on sale in at least one store, no price row = excluded
\* by any price or discount bound), each game at most once.
C16_FiltersSelect ==
  Answered /\ request \in FilterRequests =>
    /\ response.status = 200
    /\ response.body.total = Cardinality(Matching(request))
    /\ Returned \subseteq Matching(request)
    /\ Cardinality(Returned) = Len(response.body.games)
    /\ "page" \notin DOMAIN request /\ response.body.total <= 50 =>
         Returned = Matching(request)

\* all four post-aggregation filters were supplied, one game with two store
\* rows passed them and the others, one of them without prices, did not
C16_Witness ==
  /\ Answered
  /\ {"min_price", "max_price", "min_discount", "on_sale"} \subseteq DOMAIN request
  /\ response.status = 200
  /\ Cardinality(games) = SmallCatalogue
  /\ Returned = {2}
  /\ Cardinality(PricesOf(2)) = 2
  /\ \E g \in games : PricesOf(g.steam_app_id) = {}

\* the sorted filtered list of the request, and its page and page size
FullList ==
  LET p == QueryParams(request)
  IN Sorted(Selected(Db, p), SortColumn(p), Descending(p))
PageOf(q) == ParseInt(Default(q, "page", <<"1">>))
LimitOf(q) == MathMin(ParseInt(Default(q, "limit", <<"5", "0">>)), Num(100))
Paged(q) ==
  /\ IsFinite(PageOf(q)) /\ PageOf(q).v >= 1
  /\ IsFinite(LimitOf(q)) /\ LimitOf(q).v >= 1

\* C17: total is the number of games matching the filters whatever the
\* page, page size and sort; totalPages = ceil(total / limit); page P holds
\* the positions (P-1)*limit+1 .. P*limit of the sorted filtered list, and
\* a page past the last is an empty list with the same total and
\* totalPages, not an error.
C17_Pagination ==
  Answered /\ Paged(request) =>
    LET P == PageOf(request).v
        L == LimitOf(request).v
        total == Cardinality(Matching(request))
        first == (P - 1) * L + 1
        last == IF P * L < total THEN P * L ELSE total
        page == response.body.games
    IN /\ response.status = 200
       /\ response.body.total = total
       /\ response.body.page = Num(P)
       /\ response.body.limit = Num(L)
       /\ IsFinite(response.body.totalPages)
       /\ (response.body.totalPages.v - 1) * L < total
       /\ total <= response.body.totalPages.v * L
       /\ response.body.totalPages.v >= 0
       /\ page = (IF last < first THEN <<>> ELSE SubSeq(FullList, first, last))

\* the second page of two held the third of three games
C17_Witness ==
  /\ Answered /\ Paged(request)
  /\ PageOf(request) = Num(2) /\ LimitOf(request) = Num(2)
  /\ response.body.total = 3
  /\ Len(response.body.games) = 1
  /\ response.body.games[1] = FullList[3]

\* C18: for every limit accepted by GET /api/games the response's limit is
\* at most 100 and at most 100 games are returned in one response.
C18_Original ==
  Answered /\ response.status = 200 =>
    /\ IsFinite(response.body.limit) => response.body.limit.v <= 100
    /\ Len(response.body.games) <= 100

\* a page or limit value that is not a number, zero or negative
Bad(x) == ~IsFinite(x) \/ x.v <= 0
BadPage(q) == "page" \in DOMAIN q /\ Bad(ParseInt(q.page))
BadLimit(q) == "limit" \in DOMAIN q /\ Bad(ParseInt(q.limit))

\* C19: a bad page or limit is coerced to the default (page 1, limit 50)
\* and answered with 200 and a well-formed body, or answered with a 4xx;
\* never a 5xx, never a page, limit or totalPages that is not a finite
\* number.
C19_Original ==
  Answered /\ (BadPage(request) \/ BadLimit(request)) =>
    \/ response.status \in 400..499
    \/ /\ response.status = 200
       /\ BadPage(request) => response.body.page = Num(1)
       /\ BadLimit(request) => response.body.limit = Num(50)
       /\ IsFinite(response.body.page)
       /\ IsFinite(response.body.limit)
       /\ IsFinite(response.body.totalPages)

\* --------------------------------------------------------- audit claims
\* C20: after every run of a bulk sync, whether it stored records, found
\* nothing to sync or failed, data_sync_log holds exactly one row for that
\* source, with this run's timestamp and record count and a status that
\* tells a failed run from one that succeeded.
C20_Original ==
  lastRun # NoRun =>
    LET rows == {r \in data_sync_log : r.source = lastRun.source}
    IN /\ Cardinality(rows) = 1
       /\ \A r \in rows :
            /\ r.last_sync_at = lastRun.at
            /\ r.records_updated = lastRun.count
            /\ r.status = "success" <=> lastRun.outcome # "failed"

\* ------------------------------------------------- later limiter claims
\* C25: a limiter configured with maxRequests = 0 never admits a caller: no
\* waitForSlot call on it records a timestamp or returns.
C25_Original ==
  maxRequests = 0 =>
    /\ requests = <<>>
    /\ \A c \in Callers : Recorded(c) = 0 /\ pc[c] \notin {"admitted", "done"}

\* ------------------------------------------------- later service claims
\* the step in which fetchGameRating's catch block handles what fetchJson threw
RatingFetchThrew == svc = "protondb" /\ spc = "ids" /\ fpc = "thrown" /\ fpc' = "idle"

C26_UpsertFrame ==
  \A game \in GameInputs :
    LET r == UpsertGame(Db, game, now)
    IN r.ok /\ GameExists(Db, game.steam_app_id) =>
         /\ r.db = [Db EXCEPT !.games = r.db.games]
         /\ {g \in r.db.games : g.steam_app_id # game.steam_app_id}
              = {g \in games : g.steam_app_id # game.steam_app_id}
         /\ Cardinality(RowsOf(r.db.games, game.steam_app_id)) = 1

\* a game that has price rows was upserted again and still has them
C26_Witness ==
  /\ lastCall = [op |-> "upsertGame", ok |-> TRUE]
  /\ \E id \in GameIds :
       /\ upserted[id] # <<>> /\ upserted[id][1]
       /\ RowsOf(current_prices, id) # {}
       /\ RowsOf(price_history, id) # {}

\* --------------------------------------------------- later query claims
\* C28: getGames applies the on-sale filter only when onSale is true: with
\* onSale = false it returns the same games and the same total as with
\* onSale omitted.
C28_Original ==
  \A p \in {<<>>, [limit |-> Num(2)], [sortBy |-> "min_price"]} :
    LET off == GetGames(Db, p @@ [onSale |-> JsFalse])
        omitted == GetGames(Db, p)
    IN /\ off.ok /\ omitted.ok
       /\ off.games = omitted.games
       /\ off.total = omitted.total

\* C29: for every stored game, with or without a rating, getGameById returns
\* a record whose steam_app_id is the game's id and whose last_updated is the
\* games row's own: the joined rating overwrites or nulls no games column.
C29_Original ==
  \A g \in games :
    LET r == GetGameById(Db, g.steam_app_id)
    IN /\ r.found
       /\ r.game.steam_app_id = Some(g.steam_app_id)
       /\ r.game.last_updated = Some(g.last_updated)

\* ------------------------------------------------- later rating claims
\* C23: whatever tier string the upstream returned, every tier stored in a
\* protondb_ratings row is a lower-case member of the closed enumeration
\* (platinum, gold, silver, bronze, borked, pending, native).
C23_Original ==
  \A id \in GameIds, data \in UpstreamData :
    LET rating == FetchGameRating(id, data)
    IN Fetched(rating) =>
         \A row \in UpsertRating(Db, rating).db.protondb_ratings :
           row.tier \in ProtonTier \cup {"native"}

\* --------------------------------------------------- later loop claims
IdLists == {<<1>>, <<1, 2>>, <<2, 3>>}
OncePerId(ids, progress) ==
  /\ Len(progress) = Len(ids)
  /\ \A k \in DOMAIN ids :
       /\ progress[k].current = k
       /\ progress[k].total = Len(ids)
       /\ progress[k].steamAppId = ids[k]
       /\ progress[k].status \in {"success", "skipped", "failed"}

\* C22: with a progress callback, a bulk sync calls it exactly once after
\* each id, with current = 1, 2, ..., total in this order, the id just
\* processed and its outcome (success, skipped or failed).
C22_Original ==
  \A ids \in IdLists :
    /\ \A fetched \in FetchOutcomes(Range(ids), GameInputs) :
         OncePerId(ids, FetchAndStoreGames(Db, ids, fetched, now,
                                           LogProgress).progress)
    /\ \A fetched \in FetchOutcomes(Range(ids), RatingInputs) :
         OncePerId(ids, FetchAndStoreRatings(Db, ids, fetched,
                                             LogProgress).progress)

\* C27: when fetchAndStoreGames or fetchAndStoreRatings returns, success +
\* skipped + failed is the number of ids given, for every outcome of the
\* fetch, of the store write and of the progress callback, one that throws
\* included.
C27_Original ==
  \A ids \in IdLists,
     onProgress \in {NoCallback, LogProgress, Callback({1}), Callback({1, 2})} :
    /\ \A fetched \in FetchOutcomes(Range(ids), GameInputs) :
         LET r == FetchAndStoreGames(Db, ids, fetched, now, onProgress)
         IN r.success + r.skipped + r.failed = Len(ids)
    /\ \A fetched \in FetchOutcomes(Range(ids), RatingInputs) :
         LET r == FetchAndStoreRatings(Db, ids, fetched, onProgress)
         IN r.success + r.skipped + r.failed = Len(ids)

\* ---------------------------------------------------- scheduler claims
\* C21: a failure of a scheduled run never brings the process down and never
\* blocks a run: whatever runs have failed, no exception has left a callback,
\* and the next tick of each of the three jobs starts its run.
C21_FailuresContained ==
  /\ ~crashed
  /\ \A j \in Jobs : ticks < MaxTicks => ENABLED CronTick(j)

\* a run failed and logged it; later ticks started all three jobs
C21_Witness ==
  /\ errorLog # {}
  /\ afterFailure = Jobs
  /\ \A j \in Jobs : running[j] > 0

\* C30: runs of one scheduled job never overlap: at most one run of the
\* price job, of the rating job and of the games job is in progress.
C30_Original == \A j \in Jobs : running[j] <= 1

====
